---- MODULE Spec2Model ----
(***************************************************************************)
(* Drum sheet editor, transport scheduler and progress API of j_project.   *)
(*                                                                         *)
(* The editor state is the React state of SheetPlayView after its effects  *)
(* have settled: editorSheet (with editorRef.current equal to it),         *)
(* noteLengthOverrides (with noteLengthOverridesRef.current equal to it),  *)
(* and the clipboard ref.  beatSelection is set freely by mouse drags      *)
(* between any two operations (beginBeatSelection / extendBeatSelection    *)
(* touch nothing else), so every operation that reads it draws it as an    *)
(* input.  inputNoteLength is set by the length buttons; pressing one with *)
(* a selection that holds no hit changes nothing else, so a grid click     *)
(* draws it as an input as well.                                           *)
(*                                                                         *)
(* A pattern row is a boolean array of fixed length totalSteps; the model  *)
(* keeps the pattern as the set of cells <<trackId, step>> that are true.  *)
(* An override map Record<"voice:step", length> is a function whose domain *)
(* is a set of keys <<voice, step>>.                                       *)
(*                                                                         *)
(* Time is counted in quarter milliseconds, so that 0.0005 s, the smallest *)
(* quantity of the transport code, and the step durations of the tempos    *)
(* used are whole numbers.                                                 *)
(***************************************************************************)
EXTENDS Integers, Sequences, FiniteSets, TLC

\* ------------------------------------------------------------------ bounds
TotalBars == 1
MaxHits == 2
MaxSelWidth == 2
MaxClipWidth == 1
MaxClipHeight == 1
\* saveSheet calls awaiting persistSheet at a time
MaxSavesAwaited == 1

\* ------------------------------------------------------- program constants
STEPS_PER_32ND == 1
STEPS_PER_16TH == 2
STEPS_PER_8TH == 4
STEPS_PER_QUARTER == 8
\* TIME_SIGNATURE_OPTIONS: the "1/4" row, the smallest grid of the table
StepsPerBarQuarter == 8

\* TRACKS in source order, restricted to one foot track and two hand tracks
TRACKS == <<"kick", "snare", "hi_hat_close">>
TrackCount == Len(TRACKS)
TrackIds == {TRACKS[i] : i \in 1..TrackCount}
HAND_TRACKS == {"hi_hat_close", "snare"}
FOOT_TRACKS == {"kick"}
VoiceParts == {"hand", "foot"}
NoteLengthSteps == {STEPS_PER_32ND, STEPS_PER_16TH, STEPS_PER_8TH, STEPS_PER_QUARTER}

\* 0-based track index, as TRACKS[index] in the source
TrackAt(index) == TRACKS[index + 1]
VoiceTracksOf(voicePart) == IF voicePart = "hand" THEN HAND_TRACKS ELSE FOOT_TRACKS
VoiceOfTrack(trackId) == IF trackId \in FOOT_TRACKS THEN "foot" ELSE "hand"

NoStep == -1
NoOverrides == [k \in {} |-> 1]

\* The sheet editor (SheetPlayView state and refs).
VARIABLES editorSheet, noteLengthOverrides, selectionClipboard

\* The playback transport: React state, the useRef cells, the audio clock
\* (AudioContext.currentTime), the sources started on the audio context that
\* have not sounded yet, and three records of what has happened: the playStep
\* calls of the current run, how the run was started, and what sounded while
\* the transport was stopped. metronomeSettings is the state of that name, ticked
\* the triggerSyncedMetronomeTick calls of the current run.
VARIABLES running, countInActive, countInEnabled, metronomeSyncEnabled, metronomeSettings, refs,
          now, audioQueue, handed, ticked, runStart, soundedWhileStopped

\* The progress API: the two tables and the requests in flight.
VARIABLES practiceSessions, idempotencyKeys, requests

\* The phrases API: one row of the phrases table and the PATCH requests on it
\* in flight.
VARIABLES phraseRow, patchRequests

\* worker, drum sheets: the drum_sheets row of one sheet (<<>> while there is
\* none), its drum_sheet_revisions rows, and the PUT and restore requests
VARIABLES drumSheetRow, drumSheetRevisions, drumSheetRequests

\* The sheets of the saveSheet calls that await persistSheet.
VARIABLES savingSheets

editorVars == <<editorSheet, noteLengthOverrides, selectionClipboard>>
transportVars == <<running, countInActive, countInEnabled, metronomeSyncEnabled, metronomeSettings,
                   refs, now, audioQueue, handed, ticked, runStart, soundedWhileStopped>>
progressVars == <<practiceSessions, idempotencyKeys, requests>>
phraseVars == <<phraseRow, patchRequests>>
drumSheetVars == <<drumSheetRow, drumSheetRevisions, drumSheetRequests>>
workerVars == <<progressVars, phraseVars, drumSheetVars>>
saveVars == <<savingSheets>>
vars == <<editorVars, transportVars, workerVars, saveVars>>

\* ------------------------------------------------------------ pure helpers
SheetTotalSteps(sheet) == sheet.stepsPerBar * sheet.totalBars

buildDurationKey(voicePart, step) == <<voicePart, step>>

BarStartOf(sheet, step) == (step \div sheet.stepsPerBar) * sheet.stepsPerBar

Min(a, b) == IF a < b THEN a ELSE b
Max(a, b) == IF a > b THEN a ELSE b

makeEmptyPattern == {}

isCoveredByDurationOverride(sheet, trackIds, voicePart, step, overrides, excludeStartStep) ==
    \E key \in DOMAIN overrides :
        /\ key[1] = voicePart
        /\ ~(excludeStartStep # NoStep /\ key[2] = excludeStartStep)
        /\ ~(key[2] >= step \/ step >= key[2] + overrides[key])
        /\ \E trackId \in trackIds : <<trackId, key[2]>> \in sheet.pattern

hasVoiceBaseEventAtStep(sheet, trackIds, voicePart, step, overrides, excludeStartStep) ==
    \/ \E trackId \in trackIds : <<trackId, step>> \in sheet.pattern
    \/ isCoveredByDurationOverride(sheet, trackIds, voicePart, step, overrides, excludeStartStep)

hasVoiceAutoSustainAtStep(sheet, trackIds, voicePart, step, overrides) == FALSE

hasVoiceEventAtStep(sheet, trackIds, voicePart, step, overrides, excludeStartStep) ==
    IF hasVoiceBaseEventAtStep(sheet, trackIds, voicePart, step, overrides, excludeStartStep)
    THEN TRUE
    ELSE IF excludeStartStep # NoStep
         THEN FALSE
         ELSE hasVoiceAutoSustainAtStep(sheet, trackIds, voicePart, step, overrides)

hasAnyEventAtStep(sheet, step, overrides) ==
    \/ hasVoiceEventAtStep(sheet, HAND_TRACKS, "hand", step, overrides, NoStep)
    \/ hasVoiceEventAtStep(sheet, FOOT_TRACKS, "foot", step, overrides, NoStep)

hasAnyTrackHitInRange(sheet, fromStep, toStep, overrides) ==
    \E step \in fromStep..toStep : hasAnyEventAtStep(sheet, step, overrides)

inferAutoLength == STEPS_PER_32ND

clampNoteLengthToBar(step, barEndStep, requested) ==
    LET remaining == Max(1, barEndStep - step)
    IN  IF requested <= remaining THEN requested
        ELSE IF remaining >= STEPS_PER_QUARTER THEN STEPS_PER_QUARTER
        ELSE IF remaining >= STEPS_PER_8TH THEN STEPS_PER_8TH
        ELSE IF remaining >= STEPS_PER_16TH THEN STEPS_PER_16TH
        ELSE STEPS_PER_32ND

resolveLengthForStep(requested) == requested

RequestedLengthAt(overrides, voicePart, step) ==
    IF buildDurationKey(voicePart, step) \in DOMAIN overrides
    THEN overrides[buildDurationKey(voicePart, step)]
    ELSE inferAutoLength

\* The normalisation without the check for a hit at the start step.
normalizeNoteLengthOverridesKeepingUnanchored(sheet, value) ==
    LET totalSteps == SheetTotalSteps(sheet)
        keep(key) ==
            LET length == value[key]
                step == key[2]
                barEndStep == BarStartOf(sheet, step) + sheet.stepsPerBar
            IN  /\ key[1] \in VoiceParts
                /\ length \in NoteLengthSteps
                /\ ~(step < 0 \/ step >= totalSteps \/ step + length > totalSteps)
                /\ ~(step + length > barEndStep)
    IN  [key \in {k \in DOMAIN value : keep(k)} |-> value[key]]

normalizeNoteLengthOverridesForPattern(sheet, value) ==
    LET totalSteps == SheetTotalSteps(sheet)
        keep(key) ==
            LET length == value[key]
                step == key[2]
                barEndStep == BarStartOf(sheet, step) + sheet.stepsPerBar
            IN  /\ key[1] \in VoiceParts
                /\ length \in NoteLengthSteps
                /\ ~(step < 0 \/ step >= totalSteps \/ step + length > totalSteps)
                /\ ~(step + length > barEndStep)
                /\ \E trackId \in VoiceTracksOf(key[1]) : <<trackId, step>> \in sheet.pattern
    IN  [key \in {k \in DOMAIN value : keep(k)} |-> value[key]]

\* ------------------------------------------------- notation tokens (4.4)
resolveVoiceStartAtStep(sheet, trackIds, voicePart, step, barEndStep, overrides) ==
    LET activeTracks == {trackId \in trackIds : <<trackId, step>> \in sheet.pattern}
    IN  IF activeTracks = {}
        THEN [found |-> FALSE, activeTracks |-> {}, length |-> 0]
        ELSE [found |-> TRUE, activeTracks |-> activeTracks,
              length |-> clampNoteLengthToBar(step, barEndStep,
                             resolveLengthForStep(RequestedLengthAt(overrides, voicePart, step)))]

buildMergedFootStartSteps(sheet, barStartStep, overrides) ==
    LET barEndStep == barStartStep + sheet.stepsPerBar
    IN  {step \in barStartStep..(barEndStep - 1) :
            LET handStart == resolveVoiceStartAtStep(sheet, HAND_TRACKS, "hand", step, barEndStep, overrides)
                footStart == resolveVoiceStartAtStep(sheet, FOOT_TRACKS, "foot", step, barEndStep, overrides)
            IN  handStart.found /\ footStart.found /\ handStart.length = footStart.length}

Tickable(kind, step, len, tracks) == [kind |-> kind, step |-> step, len |-> len, tracks |-> tracks]

\* The loop body with a quarter rest emitted wherever the next STEPS_PER_QUARTER
\* steps hold no event, without the alignment and bar-fit tests.
VoiceTickableAtUnalignedQuarterRest(sheet, trackIds, barStartStep, voicePart, overrides, mergedFootStartSteps, offset) ==
    LET step == barStartStep + offset
        barEndStep == barStartStep + sheet.stepsPerBar
        activeTracks == {trackId \in trackIds : <<trackId, step>> \in sheet.pattern}
        resolvedLength == clampNoteLengthToBar(step, barEndStep,
                              resolveLengthForStep(RequestedLengthAt(overrides, voicePart, step)))
    IN  IF activeTracks = {}
        THEN IF hasAnyEventAtStep(sheet, step, overrides)
             THEN Tickable("spacer", step, STEPS_PER_32ND, {})
             ELSE IF ~hasAnyTrackHitInRange(sheet, step, step + STEPS_PER_QUARTER - 1, overrides)
             THEN Tickable("rest", step, STEPS_PER_QUARTER, {})
             ELSE Tickable("rest", step, STEPS_PER_32ND, {})
        ELSE IF voicePart = "foot" /\ step \in mergedFootStartSteps
             THEN Tickable("spacer", step, resolvedLength, {})
             ELSE Tickable("note", step, resolvedLength, activeTracks)

\* One pass of the while loop of buildVoiceTickables at the given offset.
VoiceTickableAt(sheet, trackIds, barStartStep, voicePart, overrides, mergedFootStartSteps, offset) ==
    LET step == barStartStep + offset
        barEndStep == barStartStep + sheet.stepsPerBar
        activeTracks == {trackId \in trackIds : <<trackId, step>> \in sheet.pattern}
        canUseEighthRest == offset % STEPS_PER_8TH = 0 /\ offset + STEPS_PER_8TH - 1 < sheet.stepsPerBar
        canUseSixteenthRest == offset % STEPS_PER_16TH = 0 /\ offset + STEPS_PER_16TH - 1 < sheet.stepsPerBar
        hasAnyHitNow == hasAnyEventAtStep(sheet, step, overrides)
        resolvedLength == clampNoteLengthToBar(step, barEndStep,
                              resolveLengthForStep(RequestedLengthAt(overrides, voicePart, step)))
    IN  IF activeTracks = {}
        THEN IF hasAnyHitNow
             THEN Tickable("spacer", step, STEPS_PER_32ND, {})
             ELSE IF /\ offset % STEPS_PER_QUARTER = 0
                     /\ step + STEPS_PER_QUARTER - 1 < barEndStep
                     /\ ~hasAnyTrackHitInRange(sheet, step, step + STEPS_PER_QUARTER - 1, overrides)
             THEN Tickable("rest", step, STEPS_PER_QUARTER, {})
             ELSE IF canUseEighthRest /\ ~hasAnyTrackHitInRange(sheet, step, step + STEPS_PER_8TH - 1, overrides)
             THEN Tickable("rest", step, STEPS_PER_8TH, {})
             ELSE IF canUseSixteenthRest /\ ~hasAnyTrackHitInRange(sheet, step, step + STEPS_PER_16TH - 1, overrides)
             THEN Tickable("rest", step, STEPS_PER_16TH, {})
             ELSE Tickable("rest", step, STEPS_PER_32ND, {})
        ELSE IF voicePart = "foot" /\ step \in mergedFootStartSteps
             THEN Tickable("spacer", step, resolvedLength, {})
             ELSE IF voicePart = "hand" /\ step \in mergedFootStartSteps
             THEN Tickable("note", step, resolvedLength,
                           activeTracks \cup {trackId \in FOOT_TRACKS : <<trackId, step>> \in sheet.pattern})
             ELSE Tickable("note", step, resolvedLength, activeTracks)

RECURSIVE VoiceTickablesFrom(_, _, _, _, _, _, _)
VoiceTickablesFrom(sheet, trackIds, barStartStep, voicePart, overrides, mergedFootStartSteps, offset) ==
    IF ~(offset < sheet.stepsPerBar)
    THEN <<>>
    ELSE LET tickable == VoiceTickableAt(sheet, trackIds, barStartStep, voicePart, overrides,
                                         mergedFootStartSteps, offset)
         IN  <<tickable>> \o VoiceTickablesFrom(sheet, trackIds, barStartStep, voicePart, overrides,
                                                mergedFootStartSteps, offset + tickable.len)

buildVoiceTickables(sheet, trackIds, barStartStep, voicePart, overrides, mergedFootStartSteps) ==
    VoiceTickablesFrom(sheet, trackIds, barStartStep, voicePart, overrides, mergedFootStartSteps, 0)

\* The edit notation as rendered: per bar, the hand and the foot token rows.
RenderedVoiceTickables(sheet, overrides, barIndex, voicePart) ==
    LET barStartStep == barIndex * sheet.stepsPerBar
    IN  buildVoiceTickables(sheet, VoiceTracksOf(voicePart), barStartStep, voicePart, overrides,
                            buildMergedFootStartSteps(sheet, barStartStep, overrides))

\* ------------------------------------------------------------ createSheet
\* bpmInput as the component starts with it
DEFAULT_BPM == 90

\* A new sheet in time signature 1/4 with TotalBars bars and an empty pattern.
NewSheet ==
    [bpm |-> DEFAULT_BPM, timeSignature |-> [numerator |-> 1, denominator |-> 4],
     stepsPerBar |-> StepsPerBarQuarter, totalBars |-> TotalBars, pattern |-> makeEmptyPattern]

\* =============================================================== transport
\* ------------------------------------------ bounds of the transport runs
\* playback runs started
MaxRuns == 1
\* scheduler callbacks run until MaxHandedSteps steps have been handed to playStep
MaxHandedSteps == 12
\* a late scheduler callback is LateIntervals schedule intervals late
LateIntervals == 26

\* ----------------------------------- program constants, in quarter ms
\* 60000 ms
MS_PER_MINUTE == 240000
MIN_BPM == 40
MAX_BPM == 240
\* 0.0005 s
MIN_START_OFFSET == 2
\* 0.24 s
lookAheadSec == 960
\* 24 ms
scheduleIntervalMs == 96
\* 0.03 s
fallbackStartSec == 120
\* 0.06 s and 0.16 s
leadInPlainSec == 240
leadInSyncedSec == 640
\* 180 ms
uiSyncIntervalMs == 720
COUNT_IN_BEATS == 4
MIN_QUEUED_STEPS == 8
QUEUE_FACTOR == 3

NoTime == -1

\* tempos a sheet is created with
Tempos == {200, MAX_BPM}
LatenessChoices == {0, LateIntervals * scheduleIntervalMs}

CeilDiv(a, b) == (a + b - 1) \div b

clampBpm(bpm) == Max(MIN_BPM, Min(MAX_BPM, bpm))

getTransportQuarterBeatsPerBar(timeSignature) ==
    (timeSignature.numerator * 4) \div timeSignature.denominator

getStepDurationMs(sheet) ==
    ((MS_PER_MINUTE \div clampBpm(sheet.bpm)) * Max(1, getTransportQuarterBeatsPerBar(sheet.timeSignature)))
        \div Max(1, sheet.stepsPerBar)

clampStepIndex(step, totalSteps) ==
    IF totalSteps <= 1 THEN 0 ELSE Max(0, Min(totalSteps - 1, step))

\* A source started on the audio context: osc.start(at) / source.start(at).
\* registered: the source is in countInSourcesRef.
Source(kind, track, at, registered) ==
    [kind |-> kind, track |-> track, at |-> at, registered |-> registered]

\* startAt of triggerTrack, triggerCountInClick and triggerSyncedMetronomeTick
StartTimeOf(nowSec, atTimeSec) == Max(nowSec + MIN_START_OFFSET, atTimeSec)

\* playStep(step, atTimeSec): one triggerTrack per track with a hit at step
playStep(sheet, nowSec, step, atTimeSec) ==
    {Source("hit", cell[1], StartTimeOf(nowSec, atTimeSec), FALSE) :
        cell \in {c \in sheet.pattern : c[2] = step}}

maxQueuedSteps(stepSec) ==
    Max(MIN_QUEUED_STEPS, CeilDiv(lookAheadSec * QUEUE_FACTOR, Max(MIN_START_OFFSET, stepSec)))

\* The step loop of schedule(): acc is [step, time, played], played the
\* <<step, atTimeSec>> pairs given to playStep, in order.
RECURSIVE ScheduleSteps(_, _, _, _, _)
ScheduleSteps(acc, nowSec, stepSec, totalSteps, guard) ==
    IF acc.time <= nowSec + lookAheadSec /\ guard < maxQueuedSteps(stepSec)
    THEN ScheduleSteps([step |-> (acc.step + 1) % totalSteps,
                        time |-> acc.time + stepSec,
                        played |-> Append(acc.played, <<acc.step, acc.time>>)],
                       nowSec, stepSec, totalSteps, guard + 1)
    ELSE acc

MetronomeSubdivisions == {"quarter", "eighth", "sixteenth", "triplet", "sextuplet"}

METRONOME_SUBDIVISION_STEPS(subdivision) ==
    CASE subdivision = "quarter" -> 1
      [] subdivision = "eighth" -> 2
      [] subdivision = "sixteenth" -> 4
      [] subdivision = "triplet" -> 3
      [] subdivision = "sextuplet" -> 6

\* The beats the metronome counts in a bar: 6/8 -> 2, 12/8 -> 4.
getMetronomeSyncBeatsPerBar(timeSignature) ==
    IF timeSignature.denominator = 8 /\ timeSignature.numerator >= 6 /\ timeSignature.numerator % 3 = 0
    THEN timeSignature.numerator \div 3
    ELSE getTransportQuarterBeatsPerBar(timeSignature)

\* beatsPerBar of startSyncedMetronome, read back from the "n/4" that
\* buildSyncedMetronomeSettings writes.
syncedMetronomeBeatsPerBar(sheet) ==
    Max(1, Min(12, getMetronomeSyncBeatsPerBar(sheet.timeSignature)))

\* getStepDurationMs as the fraction num / den
getStepDurationFraction(sheet) ==
    [num |-> MS_PER_MINUTE * Max(1, getTransportQuarterBeatsPerBar(sheet.timeSignature)),
     den |-> clampBpm(sheet.bpm) * Max(1, sheet.stepsPerBar)]

\* engineBpm of startSyncedMetronome as the fraction num / den.
syncedMetronomeEngineBpm(sheet) ==
    LET transportBeatsPerBar == Max(1, getTransportQuarterBeatsPerBar(sheet.timeSignature))
        rawNum == clampBpm(sheet.bpm) * syncedMetronomeBeatsPerBar(sheet)
    IN  IF rawNum < MIN_BPM * transportBeatsPerBar THEN [num |-> MIN_BPM, den |-> 1]
        ELSE IF rawNum > MAX_BPM * transportBeatsPerBar THEN [num |-> MAX_BPM, den |-> 1]
        ELSE [num |-> rawNum, den |-> transportBeatsPerBar]

\* syncedMetronomeSecondsPerTickRef as startSyncedMetronome sets it, as the
\* fraction num / den.
syncedMetronomeSecondsPerTick(sheet, subdivision) ==
    LET engineBpm == syncedMetronomeEngineBpm(sheet)
    IN  [num |-> MS_PER_MINUTE * engineBpm.den,
         den |-> engineBpm.num * Max(1, METRONOME_SUBDIVISION_STEPS(subdivision))]

\* The tick type the metronome loop gives the tick of index tickIndex.
tickTypeOf(tickIndex, subdivisionsPerBeat, beatsPerBar) ==
    LET tickInBeat == tickIndex % Max(1, subdivisionsPerBeat)
        beatInBar == (tickIndex \div Max(1, subdivisionsPerBeat)) % Max(1, beatsPerBar)
    IN  IF tickInBeat = 0 THEN (IF beatInBar = 0 THEN "bar" ELSE "beat") ELSE "sub"

\* The metronome loop of schedule(): acc is [time, tickIndex, ticks, ticked],
\* ticked the <<tickType, time>> pairs given to triggerSyncedMetronomeTick.
RECURSIVE ScheduleTicks(_, _, _, _, _)
ScheduleTicks(acc, r, nowSec, secondsPerTick, guard) ==
    IF /\ acc.time <= nowSec + lookAheadSec
       /\ guard < Max(MIN_QUEUED_STEPS, CeilDiv(lookAheadSec * QUEUE_FACTOR, Max(MIN_START_OFFSET, secondsPerTick)))
    THEN LET tickType == tickTypeOf(acc.tickIndex, r.syncedMetronomeSubdivisions,
                                    r.syncedMetronomeBeatsPerBar)
         IN  ScheduleTicks([time |-> acc.time + secondsPerTick,
                            tickIndex |-> acc.tickIndex + 1,
                            ticks |-> acc.ticks \cup {Source("tick", tickType, StartTimeOf(nowSec, acc.time), FALSE)},
                            ticked |-> acc.ticked \cup {<<tickType, acc.time>>}],
                           r, nowSec, secondsPerTick, guard + 1)
    ELSE acc

RECURSIVE SourcesOfPlayed(_, _, _)
SourcesOfPlayed(sheet, nowSec, played) ==
    IF played = <<>> THEN {}
    ELSE playStep(sheet, nowSec, Head(played)[1], Head(played)[2])
            \cup SourcesOfPlayed(sheet, nowSec, Tail(played))

\* schedule() ending without a new timeout.
scheduleTimeoutNone(nowSec) == NoTime

\* The timeout schedule() sets for its next call.
scheduleTimeout(nowSec) == nowSec + scheduleIntervalMs

\* One call of schedule() at audio time nowSec, with the startAt and startStep
\* its effect run captured: [refs, sources, played].
schedule(sheet, r, nowSec, startAt, startStep) ==
    LET totalSteps == SheetTotalSteps(sheet)
        stepSec == getStepDurationMs(sheet)
        steps == ScheduleSteps([step |-> r.nextScheduledStep, time |-> r.nextScheduledStepTime,
                                played |-> <<>>], nowSec, stepSec, totalSteps, 0)
        secondsPerTick == r.syncedMetronomeSecondsPerTick.num \div r.syncedMetronomeSecondsPerTick.den
        noTicks == [time |-> r.syncedMetronomeNextTickTime, tickIndex |-> r.syncedMetronomeTickIndex,
                    ticks |-> {}, ticked |-> {}]
        ticks == IF r.syncedMetronomeEnabled /\ secondsPerTick > 0
                 THEN ScheduleTicks(noTicks, r, nowSec, secondsPerTick, 0)
                 ELSE noTicks
        elapsedSec == nowSec - startAt
        uiStep == (startStep + (elapsedSec \div stepSec)) % totalSteps
        syncUi == /\ elapsedSec >= 0
                  /\ uiStep # r.currentStep
                  /\ \/ uiStep % sheet.stepsPerBar = 0
                     \/ r.lastUiStepSyncAt = 0
                     \/ nowSec - r.lastUiStepSyncAt >= uiSyncIntervalMs
    IN  [refs |-> [r EXCEPT !.nextScheduledStep = steps.step,
                            !.nextScheduledStepTime = steps.time,
                            !.syncedMetronomeNextTickTime = ticks.time,
                            !.syncedMetronomeTickIndex = ticks.tickIndex,
                            !.currentStep = IF syncUi THEN uiStep ELSE @,
                            !.lastUiStepSyncAt = IF syncUi THEN nowSec ELSE @,
                            !.timer = scheduleTimeout(nowSec)],
         sources |-> SourcesOfPlayed(sheet, nowSec, steps.played) \cup ticks.ticks,
         played |-> steps.played,
         ticked |-> ticks.ticked]

\* The scheduling effect restarts from startStep at startAt on every run.
SchedulerRestartAlways(nextScheduledStepTime, startAt, stepSec) == TRUE

\* The scheduling effect restarts from startStep at startAt only when no step
\* time is pending or the pending one is more than a step before startAt.
SchedulerRestartNeeded(nextScheduledStepTime, startAt, stepSec) ==
    nextScheduledStepTime <= 0 \/ nextScheduledStepTime < startAt - stepSec

\* The [running, editorSheet] effect while running: its body, then schedule().
schedulingEffect(sheet, r, nowSec) ==
    LET totalSteps == SheetTotalSteps(sheet)
        startStep == clampStepIndex(r.transportStartStep, totalSteps)
        stepSec == getStepDurationMs(sheet)
        startAt == IF r.transportStartTime # NoTime THEN r.transportStartTime
                   ELSE nowSec + fallbackStartSec
        restart == SchedulerRestartNeeded(r.nextScheduledStepTime, startAt, stepSec)
        r1 == [r EXCEPT !.transportStartTime = startAt,
                        !.nextScheduledStep = IF restart THEN startStep ELSE @,
                        !.nextScheduledStepTime = IF restart THEN startAt ELSE @]
        r2 == [r1 EXCEPT !.nextScheduledStep = IF @ < 0 \/ @ >= totalSteps THEN startStep ELSE @]
    IN  schedule(sheet, r2, nowSec, startAt, startStep)

\* startSyncedMetronome, run by the [running, metronomeSyncEnabled, ...] effect
startSyncedMetronome(sheet, settings, r, nowSec, syncEnabled) ==
    [r EXCEPT !.syncedMetronomeBeatsPerBar = syncedMetronomeBeatsPerBar(sheet),
              !.syncedMetronomeSubdivisions = Max(1, METRONOME_SUBDIVISION_STEPS(settings.subdivision)),
              !.syncedMetronomeSecondsPerTick = syncedMetronomeSecondsPerTick(sheet, settings.subdivision),
              !.syncedMetronomeNextTickTime =
                  IF r.transportStartTime # NoTime THEN r.transportStartTime
                  ELSE nowSec + (IF syncEnabled THEN leadInSyncedSec ELSE leadInPlainSec),
              !.syncedMetronomeTickIndex = 0,
              !.syncedMetronomeEnabled = TRUE]

stopSyncedMetronome(r) ==
    [r EXCEPT !.syncedMetronomeEnabled = FALSE,
              !.syncedMetronomeTickIndex = 0,
              !.syncedMetronomeNextTickTime = 0]

\* The refs after a stop that resumes at the step the scheduler would hand next.
stopPlaybackTransportResumeAtScheduled(r) ==
    stopSyncedMetronome(
        [r EXCEPT !.timer = NoTime,
                  !.transportStartTime = NoTime,
                  !.transportStartStep = r.nextScheduledStep,
                  !.nextScheduledStep = r.currentStep,
                  !.nextScheduledStepTime = 0,
                  !.lastUiStepSyncAt = 0,
                  !.countInTimer = NoTime])

\* The refs after a stop that puts the cursor back on the start step of the run.
stopPlaybackTransportRewinding(r) ==
    stopSyncedMetronome(
        [r EXCEPT !.timer = NoTime,
                  !.transportStartTime = NoTime,
                  !.currentStep = r.transportStartStep,
                  !.nextScheduledStep = r.transportStartStep,
                  !.nextScheduledStepTime = 0,
                  !.lastUiStepSyncAt = 0,
                  !.countInTimer = NoTime])

\* The refs after stopPlaybackTransport and the effect cleanups it causes.
stopPlaybackTransport(r) ==
    stopSyncedMetronome(
        [r EXCEPT !.timer = NoTime,
                  !.transportStartTime = NoTime,
                  !.transportStartStep = r.currentStep,
                  !.nextScheduledStep = r.currentStep,
                  !.nextScheduledStepTime = 0,
                  !.lastUiStepSyncAt = 0,
                  !.countInTimer = NoTime])

\* The sources that stopPlaybackTransport leaves on the audio context: it
\* calls stop() on the sources of countInSourcesRef and on no other.
SourcesAfterStop(queue) == {source \in queue : ~source.registered}

\* The audio clock reaching t: the sources due by t sound and end.
SourcesAfter(queue, t) == {source \in queue : source.at > t}
SourcesSoundedBy(queue, t) == {source \in queue : source.at <= t}

InitRefs ==
    [currentStep |-> 0, lastUiStepSyncAt |-> 0, transportStartTime |-> NoTime,
     transportStartStep |-> 0, nextScheduledStep |-> 0, nextScheduledStepTime |-> 0,
     timer |-> NoTime, countInTimer |-> NoTime,
     syncedMetronomeEnabled |-> FALSE, syncedMetronomeNextTickTime |-> 0,
     syncedMetronomeTickIndex |-> 0, syncedMetronomeBeatsPerBar |-> 4,
     syncedMetronomeSubdivisions |-> 1,
     syncedMetronomeSecondsPerTick |-> [num |-> MS_PER_MINUTE, den |-> 120],
     audioContext |-> FALSE]

NoRun == [index |-> 0, step |-> 0, time |-> NoTime, pressedAt |-> NoTime, countIn |-> FALSE,
          metronomeSync |-> FALSE, edited |-> FALSE, audioFailed |-> FALSE]

leadInSec(syncEnabled) == IF syncEnabled THEN leadInSyncedSec ELSE leadInPlainSec

\* transportStartAt one beat early
transportStartAfterCountInShort(countInStartAt, beatSec) ==
    countInStartAt + beatSec * (COUNT_IN_BEATS - 1)

\* transportStartAt of togglePlayback
transportStartAfterCountIn(countInStartAt, beatSec) ==
    countInStartAt + beatSec * COUNT_IN_BEATS

\* countInActive as togglePlayback sets it when it starts the transport, with
\* the count-in taken whatever the checkbox says.
countInActiveAtStartAlways(enabled) == TRUE

\* countInActive as togglePlayback sets it when it starts the transport.
countInActiveAtStart(enabled) == enabled

\* The refs when togglePlayback, starting, reaches getAudioContext() with the
\* transport start time already set.
togglePlaybackUntilAudioStartSet(r, startStep, nowSec) ==
    [stopPlaybackTransport(r) EXCEPT !.currentStep = startStep,
                                     !.transportStartStep = startStep,
                                     !.transportStartTime = nowSec + leadInPlainSec]

\* The refs when togglePlayback, starting, reaches getAudioContext().
togglePlaybackUntilAudio(r, startStep, nowSec) ==
    [stopPlaybackTransport(r) EXCEPT !.currentStep = startStep,
                                     !.transportStartStep = startStep]

\* -------------------------------------------------------- togglePlayback
\* Stop; or start, where getAudioContext() either throws at new AudioContext()
\* (only while no context exists yet) or returns the context.
togglePlayback ==
    \/ /\ running \/ countInActive
       /\ running' = FALSE
       /\ countInActive' = FALSE
       /\ refs' = stopPlaybackTransport(refs)
       /\ audioQueue' = SourcesAfterStop(audioQueue)
       /\ UNCHANGED <<countInEnabled, metronomeSyncEnabled, metronomeSettings, now, handed, ticked, runStart, soundedWhileStopped>>
       /\ UNCHANGED <<editorVars, workerVars, saveVars>>
    \/ /\ ~(running \/ countInActive)
       /\ ~refs.audioContext
       /\ running' = FALSE
       /\ countInActive' = FALSE
       /\ refs' = togglePlaybackUntilAudio(
                      refs, clampStepIndex(refs.currentStep, SheetTotalSteps(editorSheet)), now)
       /\ audioQueue' = SourcesAfterStop(audioQueue)
       /\ runStart' = [runStart EXCEPT !.audioFailed = TRUE]
       /\ UNCHANGED <<countInEnabled, metronomeSyncEnabled, metronomeSettings, now, handed, ticked,
                      soundedWhileStopped>>
       /\ UNCHANGED <<editorVars, workerVars, saveVars>>
    \/ /\ ~(running \/ countInActive)
       /\ LET startStep == clampStepIndex(refs.currentStep, SheetTotalSteps(editorSheet))
              r0 == [togglePlaybackUntilAudio(refs, startStep, now) EXCEPT !.audioContext = TRUE]
              beatSec == MS_PER_MINUTE \div clampBpm(editorSheet.bpm)
              countInStartAt == now + leadInSec(metronomeSyncEnabled)
              startAt == IF countInEnabled
                         THEN transportStartAfterCountIn(countInStartAt, beatSec)
                         ELSE now + leadInSec(metronomeSyncEnabled)
              clicks == IF countInEnabled
                        THEN [beat \in 1..COUNT_IN_BEATS |->
                                 StartTimeOf(now, countInStartAt + beatSec * (beat - 1))]
                        ELSE <<>>
              r1 == [r0 EXCEPT !.transportStartTime = startAt,
                               !.nextScheduledStep = startStep,
                               !.nextScheduledStepTime = startAt,
                               !.countInTimer = IF countInEnabled THEN now + Max(0, startAt - now)
                                                ELSE NoTime]
          IN  \E eff \in {schedulingEffect(editorSheet, r1, now)} :
                 /\ running' = TRUE
                 /\ countInActive' = countInActiveAtStart(countInEnabled)
                 /\ refs' = IF metronomeSyncEnabled
                            THEN startSyncedMetronome(editorSheet, metronomeSettings, eff.refs, now,
                                                      metronomeSyncEnabled)
                            ELSE stopSyncedMetronome(eff.refs)
                 /\ audioQueue' = SourcesAfterStop(audioQueue)
                                     \cup {Source("click", "countIn", clicks[beat], TRUE) : beat \in DOMAIN clicks}
                                     \cup eff.sources
                 /\ handed' = eff.played
                 /\ ticked' = eff.ticked
                 /\ runStart' = [index |-> runStart.index + 1, step |-> startStep, time |-> startAt,
                                 pressedAt |-> now, countIn |-> countInEnabled,
                                 metronomeSync |-> metronomeSyncEnabled, edited |-> FALSE,
                                 audioFailed |-> FALSE]
       /\ UNCHANGED <<countInEnabled, metronomeSyncEnabled, metronomeSettings, now, soundedWhileStopped>>
       /\ UNCHANGED <<editorVars, workerVars, saveVars>>

\* The schedule timeout is pending (and the run is within its bound).
ScheduleTimerPending ==
    running /\ refs.timer # NoTime /\ Len(handed) < MaxHandedSteps

\* The setTimeout(schedule, scheduleIntervalMs) callback, run lateness after
\* it is due; a count-in timeout that is due earlier runs first.
scheduleTimer(lateness) ==
    /\ ScheduleTimerPending
    /\ refs.countInTimer = NoTime \/ refs.countInTimer >= refs.timer
    /\ \E t \in {Max(now, refs.timer) + lateness} :
          /\ \E s \in {schedule(editorSheet, refs, t, refs.transportStartTime,
                                clampStepIndex(refs.transportStartStep, SheetTotalSteps(editorSheet)))} :
                /\ now' = t
                /\ refs' = s.refs
                /\ audioQueue' = SourcesAfter(audioQueue, t) \cup s.sources
                /\ handed' = handed \o s.played
                /\ ticked' = ticked \cup s.ticked
    /\ UNCHANGED <<running, countInActive, countInEnabled, metronomeSyncEnabled, metronomeSettings, runStart,
                   soundedWhileStopped>>
    /\ UNCHANGED <<editorVars, workerVars, saveVars>>

\* The timeout togglePlayback sets for the end of the count-in; a schedule
\* timeout that is due earlier runs first.
countInTimeout ==
    /\ refs.countInTimer # NoTime
    /\ ~(ScheduleTimerPending /\ refs.timer < refs.countInTimer)
    /\ \E t \in {Max(now, refs.countInTimer)} :
          /\ now' = t
          /\ audioQueue' = SourcesAfter(audioQueue, t)
    /\ refs' = [refs EXCEPT !.countInTimer = NoTime]
    /\ countInActive' = FALSE
    /\ UNCHANGED <<running, countInEnabled, metronomeSyncEnabled, metronomeSettings, handed, ticked, runStart, soundedWhileStopped>>
    /\ UNCHANGED <<editorVars, workerVars, saveVars>>

\* Half a schedule interval passes before the pending callback is due.
timePasses ==
    /\ ScheduleTimerPending
    /\ now + (scheduleIntervalMs \div 2) < refs.timer
    /\ now' = now + (scheduleIntervalMs \div 2)
    /\ audioQueue' = SourcesAfter(audioQueue, now')
    /\ UNCHANGED <<running, countInActive, countInEnabled, metronomeSyncEnabled, metronomeSettings, refs,
                   handed, ticked, runStart, soundedWhileStopped>>
    /\ UNCHANGED <<editorVars, workerVars, saveVars>>

\* A click on a step head with the transport stopped, before a run.
setPlaybackCursorStep(step) ==
    /\ ~(running \/ countInActive)
    /\ runStart.index < MaxRuns
    /\ \E clamped \in {clampStepIndex(step, Max(1, SheetTotalSteps(editorSheet)))} :
          refs' = [refs EXCEPT !.currentStep = clamped,
                               !.transportStartStep = clamped,
                               !.nextScheduledStep = clamped]
    /\ UNCHANGED <<running, countInActive, countInEnabled, metronomeSyncEnabled, metronomeSettings, now, audioQueue,
                   handed, ticked, runStart, soundedWhileStopped>>
    /\ UNCHANGED <<editorVars, workerVars, saveVars>>

\* The button that stops the transport and puts the cursor on step 0.
movePlaybackCursorToStart ==
    /\ running' = FALSE
    /\ countInActive' = FALSE
    /\ refs' = [stopPlaybackTransport(refs) EXCEPT !.currentStep = 0,
                                                   !.transportStartStep = 0,
                                                   !.nextScheduledStep = 0]
    /\ audioQueue' = SourcesAfterStop(audioQueue)
    /\ UNCHANGED <<countInEnabled, metronomeSyncEnabled, metronomeSettings, now, handed, ticked, runStart,
                   soundedWhileStopped>>
    /\ UNCHANGED <<editorVars, workerVars, saveVars>>

\* With the transport stopped, the audio clock reaches the next source left
\* on the audio context, which sounds.
audioPlaysOut ==
    /\ ~(running \/ countInActive)
    /\ audioQueue # {}
    /\ \E t \in {source.at : source \in audioQueue} :
          /\ \A source \in audioQueue : t <= source.at
          /\ now' = t
          /\ audioQueue' = SourcesAfter(audioQueue, t)
          /\ soundedWhileStopped' = soundedWhileStopped \cup
                 {[kind |-> source.kind, at |-> source.at] : source \in SourcesSoundedBy(audioQueue, t)}
    /\ UNCHANGED <<running, countInActive, countInEnabled, metronomeSyncEnabled, metronomeSettings, refs, handed, ticked, runStart>>
    /\ UNCHANGED <<editorVars, workerVars, saveVars>>

\* The count-in checkbox.
setCountInEnabled(checked) ==
    /\ countInEnabled' = checked
    /\ UNCHANGED <<running, countInActive, metronomeSyncEnabled, metronomeSettings, refs, now, audioQueue,
                   handed, ticked, runStart, soundedWhileStopped>>
    /\ UNCHANGED <<editorVars, workerVars, saveVars>>

\* The [running, metronomeSyncEnabled, bpm, timeSignature, subdivision] effect
\* when one of its dependencies has changed: the cleanup of its last run where
\* that run started the metronome, then its body.
metronomeEffect(sheet, settings, r, nowSec, isRunning, syncEnabled) ==
    IF isRunning /\ syncEnabled
    THEN startSyncedMetronome(sheet, settings, stopSyncedMetronome(r), nowSec, syncEnabled)
    ELSE stopSyncedMetronome(r)

\* The metronome checkbox, and the effect it causes.
setMetronomeSyncEnabled(checked) ==
    /\ metronomeSyncEnabled' = checked
    /\ refs' = IF checked = metronomeSyncEnabled THEN refs
               ELSE metronomeEffect(editorSheet, metronomeSettings, refs, now, running, checked)
    /\ UNCHANGED <<running, countInActive, countInEnabled, metronomeSettings, now, audioQueue,
                   handed, ticked, runStart, soundedWhileStopped>>
    /\ UNCHANGED <<editorVars, workerVars, saveVars>>

\* The listener of METRONOME_SETTINGS_EVENT with settings of the given
\* subdivision, and the effect it causes.
handleMetronomeEvent(subdivision) ==
    /\ metronomeSettings' = [metronomeSettings EXCEPT !.subdivision = subdivision]
    /\ refs' = IF subdivision = metronomeSettings.subdivision THEN refs
               ELSE metronomeEffect(editorSheet, metronomeSettings', refs, now, running,
                                    metronomeSyncEnabled)
    /\ UNCHANGED <<running, countInActive, countInEnabled, metronomeSyncEnabled, now, audioQueue,
                   handed, ticked, runStart, soundedWhileStopped>>
    /\ UNCHANGED <<editorVars, workerVars, saveVars>>

\* The [running, editorSheet] effect after an operation of the editor: while
\* running, a changed sheet runs the cleanup and the effect again.
schedulingEffectAfterEdit ==
    IF running /\ editorSheet' # editorSheet
    THEN \E eff \in {schedulingEffect(editorSheet', refs, now)} :
            /\ refs' = eff.refs
            /\ audioQueue' = audioQueue \cup eff.sources
            /\ handed' = handed \o eff.played
            /\ ticked' = ticked \cup eff.ticked
            /\ runStart' = [runStart EXCEPT !.edited = TRUE]
            /\ UNCHANGED <<running, countInActive, countInEnabled, metronomeSyncEnabled, metronomeSettings,
                           now, soundedWhileStopped>>
    ELSE UNCHANGED transportVars

\* ------------------------------------------------------- selections (4.7)
NoSelection == [trackStart |-> -1, trackEnd |-> -1, stepStart |-> -1, stepEnd |-> -1]

\* beatSelection after normalizeSelectionRange, clamped to the sheet by the
\* selection effect; at most MaxSelWidth steps wide.
SelectionsOf(sheet) ==
    {sel \in {[trackStart |-> ta, trackEnd |-> tb, stepStart |-> sa, stepEnd |-> sa + w - 1] :
                 ta \in 0..(TrackCount - 1), tb \in 0..(TrackCount - 1),
                 sa \in 0..(SheetTotalSteps(sheet) - 1), w \in 1..MaxSelWidth} :
        sel.trackStart <= sel.trackEnd /\ sel.stepEnd <= SheetTotalSteps(sheet) - 1}

\* The selections a copy is taken from: at most MaxClipHeight rows by MaxClipWidth steps.
ClipSelectionsOf(sheet) ==
    {sel \in {[trackStart |-> ta, trackEnd |-> ta + h - 1, stepStart |-> sa, stepEnd |-> sa + w - 1] :
                 ta \in 0..(TrackCount - 1), h \in 1..MaxClipHeight,
                 sa \in 0..(SheetTotalSteps(sheet) - 1), w \in 1..MaxClipWidth} :
        sel.trackEnd <= TrackCount - 1 /\ sel.stepEnd <= SheetTotalSteps(sheet) - 1}

SelectedTrackIds(trackStart, trackEndExclusive) ==
    {TrackAt(index) : index \in {i \in 0..(TrackCount - 1) : trackStart <= i /\ i < trackEndExclusive}}

NoClipboard == [width |-> 0, height |-> 0, values |-> {}, noteLengthOverrides |-> NoOverrides]

\* ------------------------------------------------------- handleStepClick
\* handleStepClick without the scan of the requested span for same-voice events.
StepClickRejectedNoSpanScan(sheet, overrides, requestedLength, trackId, step) ==
    LET wasActive == <<trackId, step>> \in sheet.pattern
        voicePart == VoiceOfTrack(trackId)
        voiceTracks == VoiceTracksOf(voicePart)
        barEndStep == BarStartOf(sheet, step) + sheet.stepsPerBar
        hasSameVoicePatternAtStep == \E id \in voiceTracks : <<id, step>> \in sheet.pattern
        coveredBySameVoiceSustainAtStep ==
            /\ ~hasSameVoicePatternAtStep
            /\ isCoveredByDurationOverride(sheet, voiceTracks, voicePart, step, overrides, NoStep)
    IN  \/ ~wasActive /\ coveredBySameVoiceSustainAtStep
        \/ ~wasActive /\ ~hasSameVoicePatternAtStep /\ step + requestedLength > barEndStep

StepClickRejected(sheet, overrides, requestedLength, trackId, step) ==
    LET wasActive == <<trackId, step>> \in sheet.pattern
        voicePart == VoiceOfTrack(trackId)
        voiceTracks == VoiceTracksOf(voicePart)
        barEndStep == BarStartOf(sheet, step) + sheet.stepsPerBar
        hasSameVoicePatternAtStep == \E id \in voiceTracks : <<id, step>> \in sheet.pattern
        coveredBySameVoiceSustainAtStep ==
            /\ ~hasSameVoicePatternAtStep
            /\ \/ isCoveredByDurationOverride(sheet, voiceTracks, voicePart, step, overrides, NoStep)
               \/ hasVoiceAutoSustainAtStep(sheet, voiceTracks, voicePart, step, overrides)
    IN  \/ ~wasActive /\ coveredBySameVoiceSustainAtStep
        \/ /\ ~wasActive /\ ~hasSameVoicePatternAtStep
           /\ \/ step + requestedLength > barEndStep
              \/ \E s \in step..(Min(step + requestedLength, barEndStep) - 1) :
                    hasVoiceEventAtStep(sheet, voiceTracks, voicePart, s, overrides, NoStep)

StepClickResult(sheet, overrides, requestedLength, trackId, step) ==
    LET wasActive == <<trackId, step>> \in sheet.pattern
        voicePart == VoiceOfTrack(trackId)
        voiceTracks == VoiceTracksOf(voicePart)
        key == buildDurationKey(voicePart, step)
        hasOtherVoiceTrackAtStep == \E id \in voiceTracks : id # trackId /\ <<id, step>> \in sheet.pattern
        hasSameVoicePatternAtStep == \E id \in voiceTracks : <<id, step>> \in sheet.pattern
        nextEditor == [sheet EXCEPT !.pattern =
                          IF wasActive THEN @ \ {<<trackId, step>>} ELSE @ \cup {<<trackId, step>>}]
        nextOverrides ==
            IF wasActive
            THEN IF ~hasOtherVoiceTrackAtStep
                 THEN [k \in DOMAIN overrides \ {key} |-> overrides[k]]
                 ELSE overrides
            ELSE IF ~hasSameVoicePatternAtStep
                 THEN [k \in DOMAIN overrides \cup {key} |-> IF k = key THEN requestedLength ELSE overrides[k]]
                 ELSE overrides
    IN  IF StepClickRejected(sheet, overrides, requestedLength, trackId, step)
        THEN [sheet |-> sheet, overrides |-> overrides]
        ELSE [sheet |-> nextEditor,
              \* the [editorSheet] effect re-normalizes the overrides ref
              overrides |-> normalizeNoteLengthOverridesForPattern(nextEditor, nextOverrides)]

handleStepClick(trackId, step, inputNoteLength) ==
    /\ <<trackId, step>> \in editorSheet.pattern \/ Cardinality(editorSheet.pattern) < MaxHits
    /\ \E r \in {StepClickResult(editorSheet, noteLengthOverrides, inputNoteLength, trackId, step)} :
        /\ editorSheet' = r.sheet
        /\ noteLengthOverrides' = r.overrides
        /\ UNCHANGED selectionClipboard
    /\ schedulingEffectAfterEdit
    /\ UNCHANGED <<workerVars, saveVars>>

\* ------------------------------------- applyInputNoteLengthToSelection
\* Body of the inner step loop: acc is [overrides, changed, skipped].
ApplyLengthAtStep(sheet, acc, voicePart, selectedVoiceTrackIds, step, nextLength) ==
    LET voiceTracks == VoiceTracksOf(voicePart)
        hasSelectedVoiceHit == \E trackId \in selectedVoiceTrackIds : <<trackId, step>> \in sheet.pattern
        barEndStep == BarStartOf(sheet, step) + sheet.stepsPerBar
        key == buildDurationKey(voicePart, step)
        tried == [k \in DOMAIN acc.overrides \cup {key} |-> IF k = key THEN nextLength ELSE acc.overrides[k]]
        inside == (step + 1)..(Min(step + nextLength, barEndStep) - 1)
        conflict == \E s \in inside : hasVoiceEventAtStep(sheet, voiceTracks, voicePart, s, tried, step)
        cleared == {buildDurationKey(voicePart, s) : s \in inside}
    IN  IF ~hasSelectedVoiceHit THEN acc
        ELSE IF step + nextLength > barEndStep
        THEN [acc EXCEPT !.skipped = @ + 1]
        ELSE IF conflict
        THEN [acc EXCEPT !.skipped = @ + 1]
        ELSE [overrides |-> [k \in DOMAIN tried \ cleared |-> tried[k]],
              changed |-> acc.changed + 1, skipped |-> acc.skipped]

RECURSIVE ApplyLengthFromStep(_, _, _, _, _, _, _)
ApplyLengthFromStep(sheet, acc, voicePart, selectedVoiceTrackIds, step, stepEnd, nextLength) ==
    IF step > stepEnd
    THEN acc
    ELSE ApplyLengthFromStep(sheet,
             ApplyLengthAtStep(sheet, acc, voicePart, selectedVoiceTrackIds, step, nextLength),
             voicePart, selectedVoiceTrackIds, step + 1, stepEnd, nextLength)

ApplyLengthForVoice(sheet, acc, voicePart, selection, nextLength) ==
    LET selectedVoiceTrackIds ==
            SelectedTrackIds(selection.trackStart, selection.trackEnd + 1) \cap VoiceTracksOf(voicePart)
    IN  IF selectedVoiceTrackIds = {} THEN acc
        ELSE ApplyLengthFromStep(sheet, acc, voicePart, selectedVoiceTrackIds,
                                 selection.stepStart, selection.stepEnd, nextLength)

\* [overrides, changed, skipped] after both voice passes and the final normalize
ApplyLengthResult(sheet, overrides, selection, nextLength) ==
    LET start == [overrides |-> overrides, changed |-> 0, skipped |-> 0]
        afterHand == ApplyLengthForVoice(sheet, start, "hand", selection, nextLength)
        afterFoot == ApplyLengthForVoice(sheet, afterHand, "foot", selection, nextLength)
    IN  [afterFoot EXCEPT !.overrides = normalizeNoteLengthOverridesForPattern(sheet, @)]

applyInputNoteLengthToSelection(nextLength, selection) ==
    /\ selection # NoSelection
    /\ noteLengthOverrides' =
          ApplyLengthResult(editorSheet, noteLengthOverrides, selection, nextLength).overrides
    /\ UNCHANGED <<editorSheet, selectionClipboard>>
    /\ UNCHANGED <<transportVars, workerVars, saveVars>>

\* ----------------------------------------------------- cycleNoteDuration
CycleCandidates == <<STEPS_PER_QUARTER, STEPS_PER_8TH, STEPS_PER_16TH, STEPS_PER_32ND>>

CycleIndexOf(length) ==
    IF \E i \in 1..Len(CycleCandidates) : CycleCandidates[i] = length
    THEN (CHOOSE i \in 1..Len(CycleCandidates) : CycleCandidates[i] = length) - 1
    ELSE Len(CycleCandidates) - 1

\* nextLength of cycleNoteDuration: the first candidate after the current one that fits the bar
CycleNextLength(sheet, overrides, voicePart, step) ==
    LET barEndStep == BarStartOf(sheet, step) + sheet.stepsPerBar
        currentLength == resolveLengthForStep(RequestedLengthAt(overrides, voicePart, step))
        startIndex == CycleIndexOf(currentLength)
        candidate(i) == CycleCandidates[((startIndex + i) % Len(CycleCandidates)) + 1]
        fitting == {i \in 1..Len(CycleCandidates) : step + candidate(i) <= barEndStep}
    IN  IF fitting = {} THEN currentLength
        ELSE candidate(CHOOSE i \in fitting : \A j \in fitting : i <= j)

CycleResult(sheet, overrides, voicePart, step) ==
    LET trackIds == VoiceTracksOf(voicePart)
        barEndStep == BarStartOf(sheet, step) + sheet.stepsPerBar
        key == buildDurationKey(voicePart, step)
        currentLength == resolveLengthForStep(RequestedLengthAt(overrides, voicePart, step))
        nextLength == CycleNextLength(sheet, overrides, voicePart, step)
        inside == (step + 1)..(Min(step + nextLength, barEndStep) - 1)
        nextSheet == [sheet EXCEPT !.pattern = @ \ {<<trackId, s>> : trackId \in trackIds, s \in inside}]
        cleared == {buildDurationKey(voicePart, s) : s \in inside}
        withKey == [k \in DOMAIN overrides \cup {key} |-> IF k = key THEN nextLength ELSE overrides[k]]
        nextOverrides == [k \in DOMAIN withKey \ cleared |-> withKey[k]]
    IN  IF ~(\E trackId \in trackIds : <<trackId, step>> \in sheet.pattern) \/ nextLength = currentLength
        THEN [sheet |-> sheet, overrides |-> overrides]
        ELSE [sheet |-> nextSheet,
              overrides |-> normalizeNoteLengthOverridesForPattern(nextSheet, nextOverrides)]

\* A double click reaches cycleNoteDuration only on a rendered note-edit-<voice>-<step> element.
NoteElementRendered(sheet, overrides, voicePart, step) ==
    /\ \E trackId \in VoiceTracksOf(voicePart) : <<trackId, step>> \in sheet.pattern
    /\ LET tickables == RenderedVoiceTickables(sheet, overrides, step \div sheet.stepsPerBar, voicePart)
       IN  \E i \in 1..Len(tickables) : tickables[i].kind = "note" /\ tickables[i].step = step

cycleNoteDuration(voicePart, step) ==
    /\ NoteElementRendered(editorSheet, noteLengthOverrides, voicePart, step)
    /\ \E r \in {CycleResult(editorSheet, noteLengthOverrides, voicePart, step)} :
        /\ editorSheet' = r.sheet
        /\ noteLengthOverrides' = r.overrides
        /\ UNCHANGED selectionClipboard
    /\ schedulingEffectAfterEdit
    /\ UNCHANGED <<workerVars, saveVars>>

\* ------------------------------------------------- copySelectedBeatBlock
\* values holds the <<row, col>> cells of the block that are true.
CopyBlock(sheet, overrides, selection) ==
    LET height == selection.trackEnd - selection.trackStart + 1
        width == selection.stepEnd - selection.stepStart + 1
        values == {<<row, col>> \in (0..(height - 1)) \X (0..(width - 1)) :
                      <<TrackAt(selection.trackStart + row), selection.stepStart + col>> \in sheet.pattern}
        selectedTrackIds == SelectedTrackIds(selection.trackStart, selection.trackEnd + 1)
        copiedKeys ==
            {key \in DOMAIN overrides :
                /\ key[1] \in VoiceParts
                /\ ~(key[2] < selection.stepStart \/ key[2] > selection.stepEnd)
                /\ \E trackId \in selectedTrackIds \cap VoiceTracksOf(key[1]) :
                      <<trackId, key[2]>> \in sheet.pattern}
        copiedOverrides ==
            [rel \in {<<key[1], key[2] - selection.stepStart>> : key \in copiedKeys} |->
                overrides[<<rel[1], rel[2] + selection.stepStart>>]]
    IN  [width |-> width, height |-> height, values |-> values, noteLengthOverrides |-> copiedOverrides]

copySelectedBeatBlock(selection) ==
    /\ selection # NoSelection
    /\ selectionClipboard' = CopyBlock(editorSheet, noteLengthOverrides, selection)
    /\ UNCHANGED <<editorSheet, noteLengthOverrides>>
    /\ UNCHANGED <<transportVars, workerVars, saveVars>>

\* ------------------------------------------------ pasteSelectedBeatBlock
AffectedVoices(affectedTrackIds) ==
    {voicePart \in VoiceParts : affectedTrackIds \cap VoiceTracksOf(voicePart) # {}}

\* The applied size with the width not clipped to the steps of the sheet.
PasteAppliedWidthUnclipped(sheet, copied, targetTrack, targetStep) ==
    [height |-> Min(copied.height, Max(0, TrackCount - targetTrack)),
     width |-> copied.width]

PasteApplied(sheet, copied, targetTrack, targetStep) ==
    [height |-> Min(copied.height, Max(0, TrackCount - targetTrack)),
     width |-> Min(copied.width, Max(0, SheetTotalSteps(sheet) - targetStep))]

PasteResult(sheet, overrides, copied, targetTrack, targetStep) ==
    LET applied == PasteApplied(sheet, copied, targetTrack, targetStep)
        written == {<<TrackAt(targetTrack + row), targetStep + col>> :
                       row \in 0..(applied.height - 1), col \in 0..(applied.width - 1)}
        pasted == {<<TrackAt(targetTrack + rc[1]), targetStep + rc[2]>> :
                      rc \in {v \in copied.values : v[1] < applied.height /\ v[2] < applied.width}}
        nextEditor == [sheet EXCEPT !.pattern = (@ \ written) \cup pasted]
        affectedVoices == AffectedVoices(SelectedTrackIds(targetTrack, targetTrack + applied.height))
        deleted == {buildDurationKey(voice, targetStep + col) :
                       voice \in affectedVoices, col \in 0..(applied.width - 1)}
        applicable == {rel \in DOMAIN copied.noteLengthOverrides :
                          /\ rel[1] \in affectedVoices
                          /\ ~(rel[2] < 0 \/ rel[2] >= applied.width)}
        reapplied == {buildDurationKey(rel[1], targetStep + rel[2]) : rel \in applicable}
        nextOverrides ==
            [key \in (DOMAIN overrides \ deleted) \cup reapplied |->
                IF key \in reapplied
                THEN copied.noteLengthOverrides[<<key[1], key[2] - targetStep>>]
                ELSE overrides[key]]
    IN  IF applied.height < 1 \/ applied.width < 1
        THEN [ok |-> FALSE, sheet |-> sheet, overrides |-> overrides, applied |-> applied]
        ELSE [ok |-> TRUE, sheet |-> nextEditor,
              overrides |-> normalizeNoteLengthOverridesForPattern(nextEditor, nextOverrides),
              applied |-> applied]

pasteSelectedBeatBlock(selection) ==
    /\ selection # NoSelection
    /\ selectionClipboard # NoClipboard
    /\ \E r \in {PasteResult(editorSheet, noteLengthOverrides, selectionClipboard,
                            selection.trackStart, selection.stepStart)} :
        /\ Cardinality(r.sheet.pattern) <= MaxHits
        /\ editorSheet' = r.sheet
        /\ noteLengthOverrides' = r.overrides
        /\ UNCHANGED selectionClipboard
    /\ schedulingEffectAfterEdit
    /\ UNCHANGED <<workerVars, saveVars>>

\* ----------------------------------------------- deleteSelectedBeatBlock
\* deleteSelectedBeatBlock leaving the removal of the overrides to the
\* normalisation alone.
DeleteResultNormalizingOnly(sheet, overrides, selection) ==
    LET totalStepsInSheet == SheetTotalSteps(sheet)
        trackStart == Max(0, Min(selection.trackStart, TrackCount - 1))
        trackEnd == Max(0, Min(selection.trackEnd, TrackCount - 1))
        stepStart == Max(0, Min(selection.stepStart, totalStepsInSheet - 1))
        stepEnd == Max(0, Min(selection.stepEnd, totalStepsInSheet - 1))
        affectedTrackIds == SelectedTrackIds(trackStart, trackEnd + 1)
        removed == {cell \in sheet.pattern :
                       cell[1] \in affectedTrackIds /\ stepStart <= cell[2] /\ cell[2] <= stepEnd}
        nextEditor == [sheet EXCEPT !.pattern = @ \ removed]
    IN  IF trackStart > trackEnd \/ stepStart > stepEnd
        THEN [ok |-> FALSE, sheet |-> sheet, overrides |-> overrides, removedCount |-> 0]
        ELSE [ok |-> TRUE, sheet |-> nextEditor,
              overrides |-> normalizeNoteLengthOverridesForPattern(nextEditor, overrides),
              removedCount |-> Cardinality(removed)]

DeleteResult(sheet, overrides, selection) ==
    LET totalStepsInSheet == SheetTotalSteps(sheet)
        trackStart == Max(0, Min(selection.trackStart, TrackCount - 1))
        trackEnd == Max(0, Min(selection.trackEnd, TrackCount - 1))
        stepStart == Max(0, Min(selection.stepStart, totalStepsInSheet - 1))
        stepEnd == Max(0, Min(selection.stepEnd, totalStepsInSheet - 1))
        affectedTrackIds == SelectedTrackIds(trackStart, trackEnd + 1)
        removed == {cell \in sheet.pattern :
                       cell[1] \in affectedTrackIds /\ stepStart <= cell[2] /\ cell[2] <= stepEnd}
        nextEditor == [sheet EXCEPT !.pattern = @ \ removed]
        deleted == {buildDurationKey(voice, step) :
                       voice \in AffectedVoices(affectedTrackIds), step \in stepStart..stepEnd}
        nextOverrides == [key \in DOMAIN overrides \ deleted |-> overrides[key]]
    IN  IF trackStart > trackEnd \/ stepStart > stepEnd
        THEN [ok |-> FALSE, sheet |-> sheet, overrides |-> overrides, removedCount |-> 0]
        ELSE [ok |-> TRUE, sheet |-> nextEditor,
              overrides |-> normalizeNoteLengthOverridesForPattern(nextEditor, nextOverrides),
              removedCount |-> Cardinality(removed)]

deleteSelectedBeatBlock(selection) ==
    /\ selection # NoSelection
    /\ \E r \in {DeleteResult(editorSheet, noteLengthOverrides, selection)} :
        /\ editorSheet' = r.sheet
        /\ noteLengthOverrides' = r.overrides
        /\ UNCHANGED selectionClipboard
    /\ schedulingEffectAfterEdit
    /\ UNCHANGED <<workerVars, saveVars>>

\* ------------------------------------------- time signatures and the grid
TimeSignature(numerator, denominator) == [numerator |-> numerator, denominator |-> denominator]

TIME_SIGNATURE_OPTIONS ==
    << [value |-> TimeSignature(1, 4), stepsPerBar |-> 8],
       [value |-> TimeSignature(2, 4), stepsPerBar |-> 16],
       [value |-> TimeSignature(3, 4), stepsPerBar |-> 24],
       [value |-> TimeSignature(6, 8), stepsPerBar |-> 24],
       [value |-> TimeSignature(4, 4), stepsPerBar |-> 32],
       [value |-> TimeSignature(6, 4), stepsPerBar |-> 48],
       [value |-> TimeSignature(12, 8), stepsPerBar |-> 48] >>

TimeSignatureValues == {TIME_SIGNATURE_OPTIONS[i].value : i \in DOMAIN TIME_SIGNATURE_OPTIONS}

resolveStepsPerBar(timeSignature) ==
    LET found == {i \in DOMAIN TIME_SIGNATURE_OPTIONS : TIME_SIGNATURE_OPTIONS[i].value = timeSignature}
    IN  IF found = {} THEN 32 ELSE TIME_SIGNATURE_OPTIONS[CHOOSE i \in found : TRUE].stepsPerBar

MAX_TOTAL_BARS == 256

\* Every row cut two steps short of totalSteps.
resizePatternShort(pattern, totalSteps) ==
    {cell \in pattern : cell[2] < totalSteps - 2}

\* resizePattern: every row cut to totalSteps or padded with empty steps.
resizePattern(pattern, totalSteps) ==
    {cell \in pattern : cell[2] < totalSteps}

\* remapPatternSteps, used by parseSheet for a sheet stored on the legacy grid
remapPatternSteps(pattern, fromTotalSteps, toTotalSteps) ==
    IF fromTotalSteps = toTotalSteps THEN pattern
    ELSE {<<cell[1], Max(0, Min(toTotalSteps - 1, (cell[2] * toTotalSteps) \div fromTotalSteps))>> :
             cell \in pattern}

\* The refs after stopPlaybackTransport and the cursor put on step.
StopWithCursorAt(r, step) ==
    [stopPlaybackTransport(r) EXCEPT !.currentStep = step,
                                     !.transportStartStep = step,
                                     !.nextScheduledStep = step]

\* --------------------------------------------------- applyEditFromModal
\* [sheet, overrides] after the edit modal is applied with the time signature
\* and the bar count put in.
EditResult(sheet, overrides, timeSignature, totalBarsInput) ==
    LET stepsPerBar == resolveStepsPerBar(timeSignature)
        totalBars == Max(1, Min(MAX_TOTAL_BARS, totalBarsInput))
        totalSteps == stepsPerBar * totalBars
        stepsPerBarChanged == stepsPerBar # sheet.stepsPerBar
        next == [sheet EXCEPT !.timeSignature = timeSignature,
                              !.stepsPerBar = stepsPerBar,
                              !.totalBars = totalBars,
                              !.pattern = resizePattern(sheet.pattern, totalSteps)]
        baseOverrides == IF stepsPerBarChanged THEN NoOverrides ELSE overrides
    IN  [sheet |-> next, overrides |-> normalizeNoteLengthOverridesForPattern(next, baseOverrides)]

applyEditFromModal(timeSignature, totalBarsInput) ==
    /\ \E r \in {EditResult(editorSheet, noteLengthOverrides, timeSignature, totalBarsInput)} :
        /\ editorSheet' = r.sheet
        /\ noteLengthOverrides' = normalizeNoteLengthOverridesForPattern(r.sheet, r.overrides)
        /\ refs' = StopWithCursorAt(refs, clampStepIndex(refs.currentStep, SheetTotalSteps(r.sheet)))
    /\ running' = FALSE
    /\ countInActive' = FALSE
    /\ audioQueue' = SourcesAfterStop(audioQueue)
    /\ UNCHANGED <<countInEnabled, metronomeSyncEnabled, metronomeSettings, now, handed, ticked, runStart,
                   soundedWhileStopped>>
    /\ UNCHANGED selectionClipboard
    /\ UNCHANGED <<workerVars, saveVars>>

\* ------------------------------------------ loadSheet, applyImportedSheet
\* A saved or imported sheet: the sheet and the noteLengthOverrides it carries.
StoredSheet(timeSignature, totalBars, pattern, overrides) ==
    [sheet |-> [bpm |-> DEFAULT_BPM, timeSignature |-> timeSignature,
                stepsPerBar |-> resolveStepsPerBar(timeSignature),
                totalBars |-> totalBars, pattern |-> pattern],
     noteLengthOverrides |-> overrides]

\* loadSheet with target the selected sheet of savedSheets, and the effects
\* that follow: the overrides of the sheet reach noteLengthOverridesRef and
\* are normalised for the sheet.
loadSheet(target) ==
    /\ editorSheet' = target.sheet
    /\ noteLengthOverrides' = normalizeNoteLengthOverridesForPattern(target.sheet, target.noteLengthOverrides)
    /\ refs' = StopWithCursorAt(refs, 0)
    /\ running' = FALSE
    /\ countInActive' = FALSE
    /\ audioQueue' = SourcesAfterStop(audioQueue)
    /\ UNCHANGED <<countInEnabled, metronomeSyncEnabled, metronomeSettings, now, handed, ticked, runStart,
                   soundedWhileStopped>>
    /\ UNCHANGED selectionClipboard
    /\ UNCHANGED <<workerVars, saveVars>>

\* applyImportedSheet with the sheet read from a Guitar Pro file, and the
\* effects that follow.
applyImportedSheet(imported) ==
    /\ editorSheet' = imported.sheet
    /\ noteLengthOverrides' = normalizeNoteLengthOverridesForPattern(imported.sheet, imported.noteLengthOverrides)
    /\ refs' = StopWithCursorAt(refs, 0)
    /\ running' = FALSE
    /\ countInActive' = FALSE
    /\ audioQueue' = SourcesAfterStop(audioQueue)
    /\ UNCHANGED <<countInEnabled, metronomeSyncEnabled, metronomeSettings, now, handed, ticked, runStart,
                   soundedWhileStopped>>
    /\ UNCHANGED selectionClipboard
    /\ UNCHANGED <<workerVars, saveVars>>

\* -------------------------------------------------------------- saveSheet
\* saveSheet up to its await: nextSheet is the sheet in the editor at the
\* click, and persistSheet sends it.
saveSheet ==
    /\ Cardinality(savingSheets) < MaxSavesAwaited
    /\ savingSheets' = savingSheets \cup {editorSheet}
    /\ UNCHANGED <<editorVars, transportVars, workerVars>>

\* saveSheet after its await (persistSheet returns true whether the request
\* succeeded or failed): nextSheet is put in the editor, and the effects follow.
saveSheetResolves(nextSheet) ==
    /\ nextSheet \in savingSheets
    /\ savingSheets' = savingSheets \ {nextSheet}
    /\ editorSheet' = nextSheet
    /\ noteLengthOverrides' = normalizeNoteLengthOverridesForPattern(nextSheet, noteLengthOverrides)
    /\ schedulingEffectAfterEdit
    /\ UNCHANGED selectionClipboard
    /\ UNCHANGED workerVars

\* ============================================================ progress API
\* ------------------------------------------------------------------ bounds
\* POST /progress/sessions requests in flight
MaxRequests == 3

RequestIds == 1..MaxRequests
UserIds == {"u1"}
IdempotencyKeyValues == {"key-a", "key-b"}
\* request bodies: bpm and durationSec as validateSession reads them, the
\* other fields present
Bodies == {[bpm |-> 90, durationSec |-> 60], [bpm |-> 120, durationSec |-> 60],
           [bpm |-> 300, durationSec |-> 60]}

MIN_DURATION_SEC == 1
MAX_DURATION_SEC == 14400

\* validateSession(body) === null
validateSession(body) ==
    /\ ~(body.bpm < MIN_BPM \/ body.bpm > MAX_BPM)
    /\ ~(body.durationSec < MIN_DURATION_SEC \/ body.durationSec > MAX_DURATION_SEC)

\* hashPayload(JSON.stringify(body)): equal for equal bodies
hashPayload(body) == <<"hash", body>>

\* makeId("session"): an id no other call returns
makeId(prefix, requestId) == <<prefix, requestId>>

NoResponse == [status |-> 0, id |-> <<>>]
NoBody == [bpm |-> 0, durationSec |-> 0]
NoRequest == [pc |-> "idle", userId |-> "", idempotencyKey |-> "", body |-> NoBody,
              sessionId |-> <<>>, response |-> NoResponse]

\* SELECT response_json, request_hash FROM idempotency_keys WHERE user_id = ? AND idempotency_key = ?
SelectIdempotencyRows(rows, userId, idempotencyKey) ==
    {row \in rows : row.userId = userId /\ row.idempotencyKey = idempotencyKey}

\* A request arrives: header and body checks, up to the first await on the database.
createSessionArrives(requestId, userId, idempotencyKey, body) ==
    /\ requests[requestId].pc = "idle"
    /\ requests' = [requests EXCEPT ![requestId] =
          IF validateSession(body)
          THEN [NoRequest EXCEPT !.pc = "select", !.userId = userId,
                                 !.idempotencyKey = idempotencyKey, !.body = body]
          ELSE [NoRequest EXCEPT !.pc = "done", !.userId = userId,
                                 !.idempotencyKey = idempotencyKey, !.body = body,
                                 !.response = [status |-> 400, id |-> <<>>]]]
    /\ UNCHANGED <<practiceSessions, idempotencyKeys>>
    /\ UNCHANGED <<editorVars, transportVars, phraseVars, drumSheetVars, saveVars>>

\* The SELECT on idempotency_keys and the branch on its result.
createSessionSelect(requestId) ==
    LET request == requests[requestId]
        existing == SelectIdempotencyRows(idempotencyKeys, request.userId, request.idempotencyKey)
    IN  /\ request.pc = "select"
        /\ requests' = [requests EXCEPT ![requestId] =
              IF existing = {}
              THEN [request EXCEPT !.pc = "insertSession", !.sessionId = makeId("session", requestId)]
              ELSE LET row == CHOOSE r \in existing : TRUE
                   IN  IF row.requestHash # hashPayload(request.body)
                       THEN [request EXCEPT !.pc = "done", !.response = [status |-> 409, id |-> <<>>]]
                       ELSE [request EXCEPT !.pc = "done", !.response = [status |-> 200, id |-> row.response]]]
        /\ UNCHANGED <<practiceSessions, idempotencyKeys>>
        /\ UNCHANGED <<editorVars, transportVars, phraseVars, drumSheetVars, saveVars>>

\* INSERT INTO practice_sessions
createSessionInsertSession(requestId) ==
    LET request == requests[requestId]
    IN  /\ request.pc = "insertSession"
        /\ practiceSessions' = practiceSessions \cup
              {[id |-> request.sessionId, userId |-> request.userId, body |-> request.body]}
        /\ requests' = [requests EXCEPT ![requestId] = [request EXCEPT !.pc = "insertKey"]]
        /\ UNCHANGED idempotencyKeys
        /\ UNCHANGED <<editorVars, transportVars, phraseVars, drumSheetVars, saveVars>>

\* INSERT INTO idempotency_keys: UNIQUE(user_id, idempotency_key) makes the
\* statement fail when the pair is present, and the handler throws.
createSessionInsertKey(requestId) ==
    LET request == requests[requestId]
        taken == SelectIdempotencyRows(idempotencyKeys, request.userId, request.idempotencyKey) # {}
    IN  /\ request.pc = "insertKey"
        /\ idempotencyKeys' =
              IF taken THEN idempotencyKeys
              ELSE idempotencyKeys \cup
                      {[userId |-> request.userId, idempotencyKey |-> request.idempotencyKey,
                        requestHash |-> hashPayload(request.body), response |-> request.sessionId]}
        /\ requests' = [requests EXCEPT ![requestId] =
              IF taken
              THEN [request EXCEPT !.pc = "done", !.response = [status |-> 500, id |-> <<>>]]
              ELSE [request EXCEPT !.pc = "done", !.response = [status |-> 201, id |-> request.sessionId]]]
        /\ UNCHANGED practiceSessions
        /\ UNCHANGED <<editorVars, transportVars, phraseVars, drumSheetVars, saveVars>>

\* ============================================= PATCH /phrases/:id (worker)
\* PATCH requests in the runs
MaxPatchRequests == 3
PatchRequestIds == 1..MaxPatchRequests

\* version of a phrase as createPhrase inserts it (DEFAULT 1)
INITIAL_PHRASE_VERSION == 1

\* The versions and titles the requests carry.
PatchVersions == INITIAL_PHRASE_VERSION..(INITIAL_PHRASE_VERSION + MaxPatchRequests - 1)
PatchTitles == {"lick a", "lick b"}

NoPatchRequest == [pc |-> "idle", version |-> 0, title |-> "", next |-> <<>>, nextVersion |-> 0,
                   versionAtUpdate |-> 0, response |-> <<>>]

\* WHERE id = ? AND user_id = ? of an UPDATE that does not look at the version
UpdateMatchesAnyVersion(row, version) == TRUE

\* WHERE id = ? AND user_id = ? AND version = ? of the UPDATE, on the row of
\* the phrase
UpdateMatches(row, version) == row.version = version

\* parseJson and the check of body.version: a body with a numeric version and
\* a title that validatePhrasePayload accepts.
patchPhraseArrives(requestId, version, title) ==
    /\ patchRequests[requestId].pc = "idle"
    /\ patchRequests' = [patchRequests EXCEPT ![requestId] =
           [@ EXCEPT !.pc = "select", !.version = version, !.title = title]]
    /\ UNCHANGED phraseRow
    /\ UNCHANGED <<editorVars, transportVars, progressVars, drumSheetVars, saveVars>>

\* The SELECT of the row, the comparison of its version with body.version, and
\* next and nextVersion computed from the row that was read.
patchPhraseSelect(requestId) ==
    LET request == patchRequests[requestId]
    IN  /\ request.pc = "select"
        /\ patchRequests' = [patchRequests EXCEPT ![requestId] =
               IF phraseRow.version # request.version
               THEN [request EXCEPT !.pc = "done",
                                    !.response = [status |-> 409, version |-> phraseRow.version]]
               ELSE [request EXCEPT !.pc = "update",
                                    !.next = <<request.title>>,
                                    !.nextVersion = phraseRow.version + 1]]
        /\ UNCHANGED phraseRow
        /\ UNCHANGED <<editorVars, transportVars, progressVars, drumSheetVars, saveVars>>

\* The UPDATE and the check of result.meta.changes.
patchPhraseUpdate(requestId) ==
    LET request == patchRequests[requestId]
        changes == IF UpdateMatches(phraseRow, request.version) THEN 1 ELSE 0
    IN  /\ request.pc = "update"
        /\ phraseRow' = IF changes = 1
                        THEN [title |-> request.next[1], version |-> request.nextVersion,
                              updates |-> phraseRow.updates + 1]
                        ELSE phraseRow
        /\ patchRequests' = [patchRequests EXCEPT ![requestId] =
               [request EXCEPT !.pc = "done",
                               !.versionAtUpdate = phraseRow.version,
                               !.response = IF changes < 1
                                            THEN [status |-> 409, version |-> 0]
                                            ELSE [status |-> 200, version |-> request.nextVersion]]]
        /\ UNCHANGED <<editorVars, transportVars, progressVars, drumSheetVars, saveVars>>

\* ============================================================= drum sheets
\* ------------------------------------------------------------------ bounds
\* PUT /drum-sheets/:id and restore requests on the sheet
MaxDrumSheetRequests == 3
DrumSheetRequestIds == 1..MaxDrumSheetRequests

\* The contents saved (title, bpm, pattern_json, ... of a payload).
DrumSheetContents == {"a", "b"}

\* The revision numbers asked for by a restore.
RestoreRevisionNos == 1..2

NoDrumSheetRequest == [pc |-> "idle", kind |-> "", content |-> "", revisionNo |-> 0, existing |-> <<>>,
                       latestRevisionNo |-> 0, status |-> 0]

\* SELECT COALESCE(MAX(revision_no), 0)
getLatestRevisionNo(revisions) ==
    IF revisions = {} THEN 0
    ELSE CHOOSE n \in {row.revisionNo : row \in revisions} :
             \A row \in revisions : row.revisionNo <= n

\* insertRevisionSnapshot meets UNIQUE(user_id, sheet_id, revision_no).
RevisionNoTaken(revisions, revisionNo) == \E row \in revisions : row.revisionNo = revisionNo

\* The request ends: with its response, or with the exception of a statement
\* that met a constraint.
DrumSheetRequestEnds(requestId, status) ==
    drumSheetRequests' = [drumSheetRequests EXCEPT ![requestId] = [@ EXCEPT !.pc = "done", !.status = status]]

\* ------------------------------------------------------------- upsertSheet
\* parseJson and validatePayload: a payload that is accepted.
upsertSheetArrives(requestId, content) ==
    /\ drumSheetRequests[requestId].pc = "idle"
    /\ drumSheetRequests' = [drumSheetRequests EXCEPT ![requestId] =
           [@ EXCEPT !.pc = "selectExisting", !.kind = "upsert", !.content = content]]
    /\ UNCHANGED <<drumSheetRow, drumSheetRevisions>>
    /\ UNCHANGED <<editorVars, transportVars, progressVars, phraseVars, saveVars>>

\* SELECT ... FROM drum_sheets WHERE id = ? AND user_id = ?
upsertSheetSelectExisting(requestId) ==
    /\ drumSheetRequests[requestId].pc = "selectExisting"
    /\ drumSheetRequests' = [drumSheetRequests EXCEPT ![requestId] =
           [@ EXCEPT !.pc = "latest", !.existing = drumSheetRow]]
    /\ UNCHANGED <<drumSheetRow, drumSheetRevisions>>
    /\ UNCHANGED <<editorVars, transportVars, progressVars, phraseVars, saveVars>>

\* getLatestRevisionNo
upsertSheetLatest(requestId) ==
    LET request == drumSheetRequests[requestId]
        latest == getLatestRevisionNo(drumSheetRevisions)
    IN  /\ request.pc = "latest"
        /\ drumSheetRequests' = [drumSheetRequests EXCEPT ![requestId] =
               [request EXCEPT !.pc = IF request.existing # <<>> /\ latest = 0 THEN "insertFirst" ELSE "write",
                               !.latestRevisionNo = latest]]
        /\ UNCHANGED <<drumSheetRow, drumSheetRevisions>>
        /\ UNCHANGED <<editorVars, transportVars, progressVars, phraseVars, saveVars>>

\* insertRevisionSnapshot(1, makeSnapshotFromRow(existing)) for a sheet that
\* has a row and no revision
upsertSheetInsertFirst(requestId) ==
    LET request == drumSheetRequests[requestId]
    IN  /\ request.pc = "insertFirst"
        /\ IF RevisionNoTaken(drumSheetRevisions, 1)
           THEN /\ DrumSheetRequestEnds(requestId, 500)
                /\ UNCHANGED drumSheetRevisions
           ELSE /\ drumSheetRevisions' = drumSheetRevisions
                                            \cup {[revisionNo |-> 1, content |-> request.existing[1]]}
                /\ drumSheetRequests' = [drumSheetRequests EXCEPT ![requestId] =
                       [request EXCEPT !.pc = "write", !.latestRevisionNo = 1]]
        /\ UNCHANGED drumSheetRow
        /\ UNCHANGED <<editorVars, transportVars, progressVars, phraseVars, saveVars>>

\* UPDATE drum_sheets when the SELECT found the row, INSERT INTO drum_sheets
\* when it did not; the INSERT meets the primary key when the row is there now.
upsertSheetWrite(requestId) ==
    LET request == drumSheetRequests[requestId]
    IN  /\ request.pc = "write"
        /\ request.kind = "upsert"
        /\ IF request.existing = <<>> /\ drumSheetRow # <<>>
           THEN /\ DrumSheetRequestEnds(requestId, 500)
                /\ UNCHANGED drumSheetRow
           ELSE /\ drumSheetRow' = <<request.content>>
                /\ drumSheetRequests' = [drumSheetRequests EXCEPT ![requestId] =
                       [request EXCEPT !.pc = "insertRevision"]]
        /\ UNCHANGED drumSheetRevisions
        /\ UNCHANGED <<editorVars, transportVars, progressVars, phraseVars, saveVars>>

\* insertRevisionSnapshot(latestRevisionNo + 1, ...), the last statement of
\* upsertSheet and of restoreSheetRevision
insertRevisionSnapshotLast(requestId) ==
    LET request == drumSheetRequests[requestId]
        nextRevisionNo == request.latestRevisionNo + 1
    IN  /\ request.pc = "insertRevision"
        /\ IF RevisionNoTaken(drumSheetRevisions, nextRevisionNo)
           THEN /\ DrumSheetRequestEnds(requestId, 500)
                /\ UNCHANGED drumSheetRevisions
           ELSE /\ drumSheetRevisions' = drumSheetRevisions
                                            \cup {[revisionNo |-> nextRevisionNo, content |-> request.content]}
                /\ DrumSheetRequestEnds(requestId, 200)
        /\ UNCHANGED drumSheetRow
        /\ UNCHANGED <<editorVars, transportVars, progressVars, phraseVars, saveVars>>

\* ---------------------------------------------------- restoreSheetRevision
\* The revision number parsed: a number of 1 or more.
restoreSheetRevisionArrives(requestId, revisionNo) ==
    /\ drumSheetRequests[requestId].pc = "idle"
    /\ drumSheetRequests' = [drumSheetRequests EXCEPT ![requestId] =
           [@ EXCEPT !.pc = "selectRevision", !.kind = "restore", !.revisionNo = revisionNo]]
    /\ UNCHANGED <<drumSheetRow, drumSheetRevisions>>
    /\ UNCHANGED <<editorVars, transportVars, progressVars, phraseVars, saveVars>>

\* SELECT ... FROM drum_sheet_revisions WHERE ... AND revision_no = ?
restoreSheetRevisionSelect(requestId) ==
    LET request == drumSheetRequests[requestId]
        found == {row \in drumSheetRevisions : row.revisionNo = request.revisionNo}
    IN  /\ request.pc = "selectRevision"
        /\ IF found = {}
           THEN DrumSheetRequestEnds(requestId, 404)
           ELSE drumSheetRequests' = [drumSheetRequests EXCEPT ![requestId] =
                    [request EXCEPT !.pc = "selectExists", !.content = (CHOOSE row \in found : TRUE).content]]
        /\ UNCHANGED <<drumSheetRow, drumSheetRevisions>>
        /\ UNCHANGED <<editorVars, transportVars, progressVars, phraseVars, saveVars>>

\* SELECT id FROM drum_sheets WHERE id = ? AND user_id = ?
restoreSheetRevisionSelectExists(requestId) ==
    /\ drumSheetRequests[requestId].pc = "selectExists"
    /\ drumSheetRequests' = [drumSheetRequests EXCEPT ![requestId] =
           [@ EXCEPT !.pc = "write", !.existing = drumSheetRow]]
    /\ UNCHANGED <<drumSheetRow, drumSheetRevisions>>
    /\ UNCHANGED <<editorVars, transportVars, progressVars, phraseVars, saveVars>>

\* UPDATE drum_sheets with the revision, or INSERT INTO drum_sheets
restoreSheetRevisionWrite(requestId) ==
    LET request == drumSheetRequests[requestId]
    IN  /\ request.pc = "write"
        /\ request.kind = "restore"
        /\ IF request.existing = <<>> /\ drumSheetRow # <<>>
           THEN /\ DrumSheetRequestEnds(requestId, 500)
                /\ UNCHANGED drumSheetRow
           ELSE /\ drumSheetRow' = <<request.content>>
                /\ drumSheetRequests' = [drumSheetRequests EXCEPT ![requestId] =
                       [request EXCEPT !.pc = "latestAfterWrite"]]
        /\ UNCHANGED drumSheetRevisions
        /\ UNCHANGED <<editorVars, transportVars, progressVars, phraseVars, saveVars>>

\* getLatestRevisionNo, after the row was written
restoreSheetRevisionLatest(requestId) ==
    LET request == drumSheetRequests[requestId]
    IN  /\ request.pc = "latestAfterWrite"
        /\ drumSheetRequests' = [drumSheetRequests EXCEPT ![requestId] =
               [request EXCEPT !.pc = "insertRevision",
                               !.latestRevisionNo = getLatestRevisionNo(drumSheetRevisions)]]
        /\ UNCHANGED <<drumSheetRow, drumSheetRevisions>>
        /\ UNCHANGED <<editorVars, transportVars, progressVars, phraseVars, saveVars>>

InitEditor ==
    /\ editorSheet = NewSheet
    /\ noteLengthOverrides = NoOverrides
    /\ selectionClipboard = NoClipboard

\* createSheet with one of the tempos
InitEditorWithTempo ==
    /\ editorSheet \in {[NewSheet EXCEPT !.bpm = bpm] : bpm \in Tempos}
    /\ noteLengthOverrides = NoOverrides
    /\ selectionClipboard = NoClipboard

\* createSheet with any time signature and any tempo
InitEditorAnySheet ==
    /\ editorSheet \in {[NewSheet EXCEPT !.bpm = bpm,
                                         !.timeSignature = timeSignature,
                                         !.stepsPerBar = resolveStepsPerBar(timeSignature)] :
                            bpm \in MIN_BPM..MAX_BPM, timeSignature \in TimeSignatureValues}
    /\ noteLengthOverrides = NoOverrides
    /\ selectionClipboard = NoClipboard

InitTransport ==
    /\ running = FALSE
    /\ countInActive = FALSE
    /\ countInEnabled = TRUE
    /\ metronomeSyncEnabled = FALSE
    /\ refs = InitRefs
    /\ now = 0
    /\ audioQueue = {}
    /\ handed = <<>>
    /\ ticked = {}
    /\ metronomeSettings = [subdivision |-> "quarter"]
    /\ runStart = NoRun
    /\ soundedWhileStopped = {}

InitProgress ==
    /\ practiceSessions = {}
    /\ idempotencyKeys = {}
    /\ requests = [requestId \in RequestIds |-> NoRequest]

\* The phrase as createPhrase inserted it, no PATCH request made.
InitPhrases ==
    /\ phraseRow = [title |-> "lick", version |-> INITIAL_PHRASE_VERSION, updates |-> 0]
    /\ patchRequests = [requestId \in PatchRequestIds |-> NoPatchRequest]

\* No saveSheet awaits.
InitSaves == savingSheets = {}

\* No drum sheet saved yet, no request made.
InitDrumSheets ==
    /\ drumSheetRow = <<>>
    /\ drumSheetRevisions = {}
    /\ drumSheetRequests = [requestId \in DrumSheetRequestIds |-> NoDrumSheetRequest]

Init == InitEditor /\ InitTransport /\ InitProgress /\ InitPhrases /\ InitDrumSheets /\ InitSaves

\* The same with the sheet created at one of the tempos.
InitWithTempo == InitEditorWithTempo /\ InitTransport /\ InitProgress /\ InitPhrases /\ InitDrumSheets /\ InitSaves

\* The same with the sheet created in any time signature at any tempo.
InitAnySheet == InitEditorAnySheet /\ InitTransport /\ InitProgress /\ InitPhrases /\ InitDrumSheets /\ InitSaves

AllTrackSteps == TrackIds \X (0..(SheetTotalSteps(NewSheet) - 1))
AllVoiceSteps == VoiceParts \X (0..(SheetTotalSteps(NewSheet) - 1))

\* Hit toggles, length requests and duration cycles on the sheet.
NextEdit ==
    \/ \E cell \in AllTrackSteps, inputNoteLength \in NoteLengthSteps :
          handleStepClick(cell[1], cell[2], inputNoteLength)
    \/ \E nextLength \in NoteLengthSteps, selection \in SelectionsOf(editorSheet) :
          applyInputNoteLengthToSelection(nextLength, selection)
    \/ \E vs \in AllVoiceSteps : cycleNoteDuration(vs[1], vs[2])

SpecEdit == Init /\ [][NextEdit]_vars

\* The lengths applied to a selection in the clipboard runs; clicks and cycles
\* still request every length.
ClipApplyLengths == {STEPS_PER_QUARTER}

\* The same with the clipboard operations, every selection a block of at most
\* MaxClipHeight rows by MaxClipWidth steps.
NextClip ==
    \/ \E cell \in AllTrackSteps, inputNoteLength \in NoteLengthSteps :
          handleStepClick(cell[1], cell[2], inputNoteLength)
    \/ \E nextLength \in ClipApplyLengths, selection \in ClipSelectionsOf(editorSheet) :
          applyInputNoteLengthToSelection(nextLength, selection)
    \/ \E vs \in AllVoiceSteps : cycleNoteDuration(vs[1], vs[2])
    \/ \E selection \in ClipSelectionsOf(editorSheet) : copySelectedBeatBlock(selection)
    \/ \E selection \in ClipSelectionsOf(editorSheet) : pasteSelectedBeatBlock(selection)
    \/ \E selection \in ClipSelectionsOf(editorSheet) : deleteSelectedBeatBlock(selection)

SpecClip == Init /\ [][NextClip]_vars

\* The steps the playback cursor is put on before a run.
CursorSteps == {0, SheetTotalSteps(NewSheet) - 2}

\* The grid cell clicked before and during a run.
TransportCells == {<<"kick", 0>>}

\* Playback: the two checkboxes (set before a run), start and stop, the
\* scheduler callbacks, the clocks, and hit toggles before and during a run.
NextTransport ==
    \/ (running \/ countInActive \/ runStart.index < MaxRuns) /\ togglePlayback
    \/ \E lateness \in LatenessChoices : scheduleTimer(lateness)
    \/ countInTimeout
    \/ timePasses
    \/ audioPlaysOut
    \/ \E step \in CursorSteps : setPlaybackCursorStep(step)
    \/ \E checked \in BOOLEAN :
          ~(running \/ countInActive) /\ runStart.index < MaxRuns /\ setCountInEnabled(checked)
    \/ \E checked \in BOOLEAN :
          ~(running \/ countInActive) /\ runStart.index < MaxRuns /\ setMetronomeSyncEnabled(checked)
    \/ \E cell \in TransportCells :
          (running \/ runStart.index < MaxRuns) /\ handleStepClick(cell[1], cell[2], STEPS_PER_16TH)

SpecTransport == InitWithTempo /\ [][NextTransport]_vars

\* The same playback with the timers served: a scheduler callback that is due
\* runs in the end, and so does the count-in timeout.
SpecTransportFair ==
    /\ SpecTransport
    /\ WF_vars(\E lateness \in LatenessChoices : scheduleTimer(lateness))
    /\ WF_vars(countInTimeout)

\* The subdivisions the metronome settings take in the runs.
ControlSubdivisions == {"quarter", "eighth"}

\* Playback with its controls used at any time: start and stop, the checkboxes,
\* the metronome settings, the cursor, and the timers, each run when due.
NextControls ==
    \/ (running \/ countInActive \/ runStart.index < MaxRuns) /\ togglePlayback
    \/ movePlaybackCursorToStart
    \/ scheduleTimer(0)
    \/ countInTimeout
    \/ \E step \in CursorSteps : setPlaybackCursorStep(step)
    \/ \E checked \in BOOLEAN : setCountInEnabled(checked)
    \/ \E checked \in BOOLEAN : setMetronomeSyncEnabled(checked)
    \/ \E subdivision \in ControlSubdivisions : handleMetronomeEvent(subdivision)

SpecControls == InitWithTempo /\ [][NextControls]_vars

\* ------------------------------------------------ the sheet in every grid
\* The time signatures and bar counts put in the edit modal.
SheetTimeSignatures == {TimeSignature(1, 4), TimeSignature(2, 4)}
MaxSheetBars == 2

\* The steps clicked, cycled and selected: the first step, a step near the end
\* of the first 1/4 bar, and the first step past it.
SheetSteps == {0, StepsPerBarQuarter - 2, StepsPerBarQuarter}
SheetCells(sheet) == {cell \in TrackIds \X SheetSteps : cell[2] < SheetTotalSteps(sheet)}
\* The notes double-clicked: the ones near the end of the first 1/4 bar.
SheetVoiceSteps == VoiceParts \X {StepsPerBarQuarter - 2}
SheetSelections(sheet) ==
    {[trackStart |-> ti, trackEnd |-> ti, stepStart |-> step, stepEnd |-> step] :
        ti \in 0..(TrackCount - 1), step \in {s \in SheetSteps : s < SheetTotalSteps(sheet)}}

\* The cells copied: the ones near the end of the first 1/4 bar.
SheetCopySelections(sheet) ==
    {selection \in SheetSelections(sheet) : selection.stepStart = StepsPerBarQuarter - 2}

\* Sheets in savedSheets, as parseSheet returns them: overrides with and without
\* a hit at their step, inside and across the end of a bar, with and without a
\* same-voice hit inside their span.
SavedSheets ==
    {StoredSheet(TimeSignature(1, 4), MaxSheetBars, {<<"snare", 0>>, <<"kick", StepsPerBarQuarter - 2>>},
                 [key \in {<<"hand", 0>>, <<"foot", 0>>, <<"foot", StepsPerBarQuarter - 2>>} |->
                     IF key[2] = 0 THEN STEPS_PER_8TH ELSE STEPS_PER_QUARTER]),
     StoredSheet(TimeSignature(2, 4), 1,
                 {<<"hi_hat_close", StepsPerBarQuarter - 2>>, <<"snare", StepsPerBarQuarter>>},
                 [key \in {<<"hand", StepsPerBarQuarter - 2>>} |-> STEPS_PER_QUARTER])}

\* Sheets as importDrumSheetFromGpFile returns them: every override at a hit of
\* its voice, with the longest length of the beats at the step, cut to the end
\* of the bar; beats of two voices of the file give a hit inside a span.
ImportedSheets ==
    {StoredSheet(TimeSignature(1, 4), 1, {<<"snare", 0>>, <<"hi_hat_close", STEPS_PER_8TH>>},
                 [key \in {<<"hand", 0>>, <<"hand", STEPS_PER_8TH>>} |->
                     IF key[2] = 0 THEN STEPS_PER_QUARTER ELSE STEPS_PER_8TH]),
     StoredSheet(TimeSignature(2, 4), 1, {<<"kick", StepsPerBarQuarter - 2>>},
                 [key \in {<<"foot", StepsPerBarQuarter - 2>>} |-> STEPS_PER_16TH])}

\* The lengths requested with a click in these runs.
SheetNoteLengths == {STEPS_PER_16TH, STEPS_PER_QUARTER}

\* Every editing operation on the sheet: hit toggles, length requests, duration
\* cycles, copy, paste, delete, the edit modal, load and import.
NextSheet ==
    \/ \E cell \in SheetCells(editorSheet), inputNoteLength \in SheetNoteLengths :
          handleStepClick(cell[1], cell[2], inputNoteLength)
    \/ \E nextLength \in ClipApplyLengths, selection \in SheetSelections(editorSheet) :
          applyInputNoteLengthToSelection(nextLength, selection)
    \/ \E vs \in SheetVoiceSteps : cycleNoteDuration(vs[1], vs[2])
    \/ \E selection \in SheetCopySelections(editorSheet) : copySelectedBeatBlock(selection)
    \/ \E selection \in SheetSelections(editorSheet) : pasteSelectedBeatBlock(selection)
    \/ \E selection \in SheetSelections(editorSheet) : deleteSelectedBeatBlock(selection)
    \/ \E timeSignature \in SheetTimeSignatures, totalBarsInput \in 1..MaxSheetBars :
          applyEditFromModal(timeSignature, totalBarsInput)
    \/ \E target \in SavedSheets : loadSheet(target)
    \/ \E imported \in ImportedSheets : applyImportedSheet(imported)

SpecSheet == Init /\ [][NextSheet]_vars

\* The blocks copied and deleted: one row or MaxBlockHeight rows by one step
\* or MaxBlockWidth steps, from the first step of the sheet.
MaxBlockHeight == 2
MaxBlockWidth == 4

BlockSelections ==
    {sel \in {[trackStart |-> ta, trackEnd |-> ta + h - 1, stepStart |-> 0, stepEnd |-> w - 1] :
                 ta \in 0..(TrackCount - 1), h \in {1, MaxBlockHeight}, w \in {1, MaxBlockWidth}} :
        sel.trackEnd <= TrackCount - 1 /\ sel.stepEnd <= SheetTotalSteps(NewSheet) - 1}

\* The cells a paste is anchored at: every track, at the first step and at the
\* last two steps of the sheet.
BlockAnchorSteps == {0, SheetTotalSteps(NewSheet) - 2, SheetTotalSteps(NewSheet) - 1}
BlockAnchors ==
    {[trackStart |-> ta, trackEnd |-> ta, stepStart |-> sa, stepEnd |-> sa] :
        ta \in 0..(TrackCount - 1), sa \in BlockAnchorSteps}

\* The cells clicked: every track, at the first and the last step of the blocks.
BlockCells == TrackIds \X {0, MaxBlockWidth - 1}

\* Hits toggled inside the blocks, blocks copied, pasted at the anchors, deleted.
NextBlock ==
    \/ \E cell \in BlockCells, inputNoteLength \in SheetNoteLengths :
          handleStepClick(cell[1], cell[2], inputNoteLength)
    \/ \E selection \in BlockSelections : copySelectedBeatBlock(selection)
    \/ \E selection \in BlockAnchors : pasteSelectedBeatBlock(selection)
    \/ \E selection \in BlockSelections : deleteSelectedBeatBlock(selection)

SpecBlock == Init /\ [][NextBlock]_vars

\* Playback stopped and started again: the cursor and the count-in set before
\* the first run, the scheduler callbacks on time, MaxResumeRuns runs.
MaxResumeRuns == 2

NextResume ==
    \/ (running \/ countInActive \/ runStart.index < MaxResumeRuns) /\ togglePlayback
    \/ scheduleTimer(0)
    \/ countInTimeout
    \/ timePasses
    \/ \E step \in CursorSteps : setPlaybackCursorStep(step)
    \/ \E checked \in BOOLEAN :
          ~(running \/ countInActive) /\ runStart.index < MaxRuns /\ setCountInEnabled(checked)

SpecResume == InitWithTempo /\ [][NextResume]_vars

\* Playback started and stopped on a sheet of any time signature and tempo,
\* the metronome sync and its subdivision chosen before.
NextSync ==
    \/ (running \/ countInActive \/ runStart.index < MaxRuns) /\ togglePlayback
    \/ \E checked \in BOOLEAN :
          ~(running \/ countInActive) /\ runStart.index < MaxRuns /\ setMetronomeSyncEnabled(checked)
    \/ \E subdivision \in MetronomeSubdivisions :
          ~(running \/ countInActive) /\ runStart.index < MaxRuns /\ handleMetronomeEvent(subdivision)

SpecSync == InitAnySheet /\ [][NextSync]_vars

\* POST /progress/sessions requests, their statements interleaved.
NextProgress ==
    \/ \E requestId \in RequestIds, userId \in UserIds,
          idempotencyKey \in IdempotencyKeyValues, body \in Bodies :
          createSessionArrives(requestId, userId, idempotencyKey, body)
    \/ \E requestId \in RequestIds : createSessionSelect(requestId)
    \/ \E requestId \in RequestIds : createSessionInsertSession(requestId)
    \/ \E requestId \in RequestIds : createSessionInsertKey(requestId)

SpecProgress == Init /\ [][NextProgress]_vars

\* PATCH /phrases/:id requests on one phrase, their statements interleaved.
NextPhrases ==
    \/ \E requestId \in PatchRequestIds, version \in PatchVersions, title \in PatchTitles :
          patchPhraseArrives(requestId, version, title)
    \/ \E requestId \in PatchRequestIds : patchPhraseSelect(requestId)
    \/ \E requestId \in PatchRequestIds : patchPhraseUpdate(requestId)

SpecPhrases == Init /\ [][NextPhrases]_vars

\* Saves and restores of one drum sheet, their statements interleaved.
NextDrumSheets ==
    \/ \E requestId \in DrumSheetRequestIds, content \in DrumSheetContents :
          upsertSheetArrives(requestId, content)
    \/ \E requestId \in DrumSheetRequestIds : upsertSheetSelectExisting(requestId)
    \/ \E requestId \in DrumSheetRequestIds : upsertSheetLatest(requestId)
    \/ \E requestId \in DrumSheetRequestIds : upsertSheetInsertFirst(requestId)
    \/ \E requestId \in DrumSheetRequestIds : upsertSheetWrite(requestId)
    \/ \E requestId \in DrumSheetRequestIds : insertRevisionSnapshotLast(requestId)
    \/ \E requestId \in DrumSheetRequestIds, revisionNo \in RestoreRevisionNos :
          restoreSheetRevisionArrives(requestId, revisionNo)
    \/ \E requestId \in DrumSheetRequestIds : restoreSheetRevisionSelect(requestId)
    \/ \E requestId \in DrumSheetRequestIds : restoreSheetRevisionSelectExists(requestId)
    \/ \E requestId \in DrumSheetRequestIds : restoreSheetRevisionWrite(requestId)
    \/ \E requestId \in DrumSheetRequestIds : restoreSheetRevisionLatest(requestId)

SpecDrumSheets == Init /\ [][NextDrumSheets]_vars

\* The step heads clicked on a sheet: the first step and a step near its end.
CursorStepsOf(sheet) == {0, SheetTotalSteps(sheet) - 2}

\* The sheets loaded and imported in these runs: the saved sheet of
\* MaxSheetBars bars and the imported sheet of one 1/4 bar.
CursorSavedSheets == {target \in SavedSheets : target.sheet.totalBars = MaxSheetBars}
CursorImportedSheets == {imported \in ImportedSheets : imported.sheet.timeSignature = TimeSignature(1, 4)}

\* The cursor and playback on a sheet that is resized in the edit modal,
\* replaced by load and import, and saved, before and during a run.
NextCursor ==
    \/ (running \/ countInActive \/ runStart.index < MaxRuns) /\ togglePlayback
    \/ scheduleTimer(0)
    \/ \E step \in CursorStepsOf(editorSheet) : setPlaybackCursorStep(step)
    \/ \E totalBarsInput \in 1..MaxSheetBars :
          /\ running \/ runStart.index < MaxRuns
          /\ applyEditFromModal(editorSheet.timeSignature, totalBarsInput)
    \/ \E target \in CursorSavedSheets : (running \/ runStart.index < MaxRuns) /\ loadSheet(target)
    \/ \E imported \in CursorImportedSheets :
          (running \/ runStart.index < MaxRuns) /\ applyImportedSheet(imported)
    \/ (running \/ runStart.index < MaxRuns) /\ saveSheet
    \/ \E nextSheet \in savingSheets : saveSheetResolves(nextSheet)

SpecCursor == InitWithTempo /\ [][NextCursor]_vars

\* ================================================== properties: the editor
\* The same-voice hits strictly inside the span of the override at key.
HitsInsideSpan(sheet, overrides, key) ==
    {cell \in sheet.pattern :
        /\ cell[1] \in VoiceTracksOf(key[1])
        /\ key[2] < cell[2] /\ cell[2] < key[2] + overrides[key]}

SpanFitsBar(sheet, overrides, key) ==
    key[2] + overrides[key] <= BarStartOf(sheet, key[2]) + sheet.stepsPerBar

\* C1: after any sequence of hit toggles, length applications and duration
\* cycles from an empty sheet, every stored override (voice, s, len) has no
\* same-voice hit at a step t with s < t < s + len, and s + len does not pass
\* the end of the bar that contains s.
C1_OverridesHoldInvariants ==
    \A key \in DOMAIN noteLengthOverrides :
        /\ HitsInsideSpan(editorSheet, noteLengthOverrides, key) = {}
        /\ SpanFitsBar(editorSheet, noteLengthOverrides, key)

\* An override longer than one step next to a second hit of the same voice.
C1_Witness ==
    \E key \in DOMAIN noteLengthOverrides :
        /\ noteLengthOverrides[key] = STEPS_PER_8TH
        /\ \E cell \in editorSheet.pattern :
              cell[1] \in VoiceTracksOf(key[1]) /\ cell[2] >= key[2] + STEPS_PER_8TH

RECURSIVE SumOfLengths(_)
SumOfLengths(tickables) ==
    IF tickables = <<>> THEN 0 ELSE Head(tickables).len + SumOfLengths(Tail(tickables))

\* The token row tiles the bar: it starts at the bar start, each token starts
\* where the one before it ends, and the last one ends at the bar end.
TilesBar(sheet, barIndex, tickables) ==
    /\ Len(tickables) >= 1
    /\ tickables[1].step = barIndex * sheet.stepsPerBar
    /\ \A i \in 1..(Len(tickables) - 1) : tickables[i + 1].step = tickables[i].step + tickables[i].len
    /\ tickables[Len(tickables)].step + tickables[Len(tickables)].len = (barIndex + 1) * sheet.stepsPerBar

\* C2: in every editor state, for each bar and each voice, the lengths of the
\* emitted tokens (notes, rests and spacers) sum to exactly stepsPerBar, and the
\* tokens cover each step of the bar exactly once.
C2_TokensFillBar ==
    \A barIndex \in 0..(editorSheet.totalBars - 1), voicePart \in VoiceParts :
        LET tickables == RenderedVoiceTickables(editorSheet, noteLengthOverrides, barIndex, voicePart)
        IN  /\ SumOfLengths(tickables) = editorSheet.stepsPerBar
            /\ TilesBar(editorSheet, barIndex, tickables)

\* A token row that holds a note longer than one step, a rest and a spacer.
C2_Witness ==
    \E voicePart \in VoiceParts :
        LET tickables == RenderedVoiceTickables(editorSheet, noteLengthOverrides, 0, voicePart)
        IN  /\ \E i \in 1..Len(tickables) : tickables[i].kind = "note" /\ tickables[i].len > 1
            /\ \E i \in 1..Len(tickables) : tickables[i].kind = "rest"
            /\ \E i \in 1..Len(tickables) : tickables[i].kind = "spacer"

\* C4: copying a selection and pasting it at once at the same origin leaves
\* the pattern and all the overrides as they were.
C4_CopyPasteRoundTrip ==
    \A selection \in ClipSelectionsOf(editorSheet) :
        LET copied == CopyBlock(editorSheet, noteLengthOverrides, selection)
            r == PasteResult(editorSheet, noteLengthOverrides, copied,
                             selection.trackStart, selection.stepStart)
        IN  r.sheet = editorSheet /\ r.overrides = noteLengthOverrides

\* The new span of a length change at (voicePart, step) holds the start of
\* another same-voice hit.
SpanHoldsOtherHit(sheet, voicePart, step, length) ==
    \E cell \in sheet.pattern :
        cell[1] \in VoiceTracksOf(voicePart) /\ step < cell[2] /\ cell[2] < step + length

\* The rows of one voice at one step, as a selection.
VoiceStepSelection(voicePart, step) ==
    LET rows == {i \in 0..(TrackCount - 1) : TrackAt(i) \in VoiceTracksOf(voicePart)}
    IN  [trackStart |-> CHOOSE i \in rows : \A j \in rows : i <= j,
         trackEnd |-> CHOOSE i \in rows : \A j \in rows : i >= j,
         stepStart |-> step, stepEnd |-> step]

\* C5: a length change (apply-to-selection or double-click cycle) whose new
\* span would hold the start of another same-voice hit is rejected: pattern and
\* overrides stay as they were, no hit is removed, no length is shortened.
C5_ConflictingLengthChangeRejected ==
    /\ \A vs \in AllVoiceSteps, length \in NoteLengthSteps :
          SpanHoldsOtherHit(editorSheet, vs[1], vs[2], length) =>
              ApplyLengthResult(editorSheet, noteLengthOverrides,
                                VoiceStepSelection(vs[1], vs[2]), length).overrides = noteLengthOverrides
    /\ \A vs \in AllVoiceSteps :
          (/\ NoteElementRendered(editorSheet, noteLengthOverrides, vs[1], vs[2])
           /\ SpanHoldsOtherHit(editorSheet, vs[1], vs[2],
                                CycleNextLength(editorSheet, noteLengthOverrides, vs[1], vs[2])))
          => LET r == CycleResult(editorSheet, noteLengthOverrides, vs[1], vs[2])
             IN  r.sheet = editorSheet /\ r.overrides = noteLengthOverrides

LengthAssignmentAccepted(sheet, overrides, voicePart, step, length) ==
    LET r == ApplyLengthResult(sheet, overrides, VoiceStepSelection(voicePart, step), length)
    IN  /\ r.changed = 1
        /\ buildDurationKey(voicePart, step) \in DOMAIN r.overrides
        /\ r.overrides[buildDurationKey(voicePart, step)] = length

\* C6: a length assignment (voice, step, length) with length in {1, 2, 4, 8}
\* is accepted if and only if the voice has a hit at step, step + length does
\* not pass the end of the bar, and no same-voice hit lies strictly inside the
\* span; hits of the other voice never cause a rejection.
C6_LengthAssignmentAcceptedIff ==
    \A vs \in AllVoiceSteps, length \in NoteLengthSteps :
        LengthAssignmentAccepted(editorSheet, noteLengthOverrides, vs[1], vs[2], length)
        <=> /\ \E trackId \in VoiceTracksOf(vs[1]) : <<trackId, vs[2]>> \in editorSheet.pattern
            /\ vs[2] + length <= BarStartOf(editorSheet, vs[2]) + editorSheet.stepsPerBar
            /\ ~SpanHoldsOtherHit(editorSheet, vs[1], vs[2], length)

\* C7: after a paste, no stored override has a same-voice hit strictly inside
\* its span.
C7_NoHitInsideSpanAfterPaste ==
    [][(\E selection \in ClipSelectionsOf(editorSheet) : pasteSelectedBeatBlock(selection))
          => \A key \in DOMAIN noteLengthOverrides' :
                HitsInsideSpan(editorSheet', noteLengthOverrides', key) = {}]_vars

\* =============================================== properties: the transport
\* C3: after stop() at time t no pattern hit, metronome tick or count-in click
\* with a timestamp later than t sounds, the events already handed to the audio
\* layer within the lookahead included.
C3_NothingSoundsAfterStop ==
    soundedWhileStopped = {}

\* C8: in one playback run from startStep with start time T0, the k-th step
\* handed to the trigger layer (k from 0) is (startStep + k) mod totalSteps and
\* its timestamp is T0 + k * stepDuration, however late the scheduler callbacks
\* run and whatever hits are toggled between them.
C8_HandedStepsOnGrid ==
    \A k \in 1..Len(handed) :
        handed[k] = << (runStart.step + (k - 1)) % SheetTotalSteps(editorSheet),
                       runStart.time + (k - 1) * getStepDurationMs(editorSheet) >>

\* A run from a step other than 0, with a hit toggled during it, in which a
\* late callback handed a backlog and the steps wrapped around the sheet.
C8_Witness ==
    /\ runStart.edited
    /\ runStart.step # 0
    /\ Len(handed) >= 2 * MaxHandedSteps
    /\ Len(handed) > SheetTotalSteps(editorSheet)

\* C10: a start with count-in at tempo bpm schedules exactly 4 clicks, at
\* t0 + k * 60/bpm for k = 0..3 with t0 the start time plus the lead-in, and
\* the first pattern step at exactly t0 + 4 * 60/bpm.
C10_CountInClicksThenFirstStep ==
    runStart.countIn =>
        LET beat == MS_PER_MINUTE \div editorSheet.bpm
            t0 == runStart.pressedAt + (IF runStart.metronomeSync THEN leadInSyncedSec ELSE leadInPlainSec)
            clicks == {source \in audioQueue : source.kind = "click"}
        IN  /\ (running /\ now = runStart.pressedAt) =>
                   /\ Cardinality(clicks) = 4
                   /\ {source.at : source \in clicks} = {t0 + k * beat : k \in 0..3}
            /\ Len(handed) >= 1 => handed[1] = <<runStart.step, t0 + 4 * beat>>

\* A count-in run that has reached its first pattern step.
C10_Witness ==
    /\ runStart.countIn
    /\ running
    /\ Len(handed) >= 1
    /\ now >= handed[1][2]

\* ============================================= properties: the progress API
SameCreateRequest(a, b) ==
    /\ requests[a].pc # "idle" /\ requests[b].pc # "idle"
    /\ requests[a].userId = requests[b].userId
    /\ requests[a].idempotencyKey = requests[b].idempotencyKey
    /\ requests[a].body = requests[b].body

SessionRowCreatedBy(requestId) ==
    \E row \in practiceSessions : row.id = requests[requestId].sessionId

TransportState ==
    IF countInActive THEN "CountingIn" ELSE IF running THEN "Playing" ELSE "Idle"

TransportStateAfter ==
    IF countInActive' THEN "CountingIn" ELSE IF running' THEN "Playing" ELSE "Idle"

\* C11: the transport state changes only from Idle to CountingIn on a start
\* with the count-in enabled, from Idle to Playing on a start with it disabled,
\* from CountingIn to Playing once the count-in has elapsed, and from any state
\* to Idle; so Playing is never followed by CountingIn without an Idle between,
\* and CountingIn is never entered with the count-in disabled.
C11_TransportTransitions ==
    [][\/ TransportStateAfter = TransportState
       \/ /\ TransportState = "Idle"
          /\ TransportStateAfter = "CountingIn"
          /\ countInEnabled
          /\ runStart'.index = runStart.index + 1
       \/ /\ TransportState = "Idle"
          /\ TransportStateAfter = "Playing"
          /\ ~countInEnabled
          /\ runStart'.index = runStart.index + 1
       \/ /\ TransportState = "CountingIn"
          /\ TransportStateAfter = "Playing"
          /\ now' >= runStart.time
       \/ TransportStateAfter = "Idle"]_vars

\* A run that went from Idle to CountingIn to Playing, the count-in checkbox
\* cleared on the way.
C11_Witness ==
    /\ running
    /\ ~countInActive
    /\ runStart.countIn
    /\ ~countInEnabled
    /\ now >= runStart.time

\* ============================================== properties: stop and start
\* The transport after stopPlaybackTransport on the given transport.
Stopped(transport) ==
    [running |-> FALSE, countInActive |-> FALSE,
     refs |-> stopPlaybackTransport(transport.refs),
     audioQueue |-> SourcesAfterStop(transport.audioQueue)]

\* C12: from any transport state, stopping twice in succession leaves exactly
\* the state that stopping once leaves: Idle, the resume step of the first
\* stop, no loop or count-in timer pending, no count-in click left, and the
\* metronome adapter inactive.
C12_StopTwiceIsStopOnce ==
    LET transport == [running |-> running, countInActive |-> countInActive,
                      refs |-> refs, audioQueue |-> audioQueue]
        once == Stopped(transport)
    IN  /\ Stopped(once) = once
        /\ ~once.running /\ ~once.countInActive
        /\ once.refs.transportStartStep = refs.currentStep
        /\ once.refs.nextScheduledStep = refs.currentStep
        /\ once.refs.timer = NoTime
        /\ once.refs.countInTimer = NoTime
        /\ \A source \in once.audioQueue : ~source.registered
        /\ ~once.refs.syncedMetronomeEnabled

\* The transport stopped once in the middle of a count-in with the metronome
\* synced; the stops of the claim are applied to this state.
C12_Witness ==
    /\ ~running /\ ~countInActive
    /\ runStart.index >= 1
    /\ runStart.countIn /\ runStart.metronomeSync
    /\ now < runStart.time
    /\ refs.timer = NoTime /\ refs.countInTimer = NoTime
    /\ ~refs.syncedMetronomeEnabled

\* C13: when togglePlayback is asked to start and the audio context cannot be
\* created, the transport stays Idle and no transport field is left set: no
\* transport start time, the next step time reset, no scheduler or count-in
\* timer, no count-in click, the metronome adapter off, both flags false.
C13_FailedStartLeavesIdle ==
    runStart.audioFailed =>
        /\ ~running /\ ~countInActive
        /\ refs.transportStartTime = NoTime
        /\ refs.nextScheduledStepTime = 0
        /\ refs.timer = NoTime
        /\ refs.countInTimer = NoTime
        /\ \A source \in audioQueue : source.kind # "click"
        /\ ~refs.syncedMetronomeEnabled
        /\ ~refs.audioContext

\* A start that failed with the count-in and the metronome sync both ticked
\* and the cursor in the middle of the bar.
C13_Witness ==
    /\ runStart.audioFailed
    /\ countInEnabled /\ metronomeSyncEnabled
    /\ refs.currentStep > 0
    /\ refs.transportStartStep = refs.currentStep

\* ===================================================== properties: phrases
PatchSucceeded(requestId) ==
    /\ patchRequests[requestId].pc = "done"
    /\ patchRequests[requestId].response.status = 200

C15_OverridesAnchored ==
    \A key \in DOMAIN noteLengthOverrides :
        /\ key[1] \in VoiceParts
        /\ key[2] \in 0..(SheetTotalSteps(editorSheet) - 1)
        /\ noteLengthOverrides[key] \in NoteLengthSteps
        /\ \E trackId \in VoiceTracksOf(key[1]) : <<trackId, key[2]>> \in editorSheet.pattern

\* On a 2/4 sheet, a hand override stands on a step where the snare has no hit
\* and the closed hi-hat has one.
C15_Witness ==
    /\ editorSheet.timeSignature = TimeSignature(2, 4)
    /\ \E key \in DOMAIN noteLengthOverrides :
          /\ key[1] = "hand"
          /\ <<"snare", key[2]>> \notin editorSheet.pattern
          /\ <<"hi_hat_close", key[2]>> \in editorSheet.pattern

\* Every hit of pattern, on a grid of fromTotalSteps steps, has a hit of the
\* same track in resized, on a grid of toTotalSteps steps, within one step of
\* its place s * toTotalSteps / fromTotalSteps.
HitsCarriedOver(pattern, fromTotalSteps, resized, toTotalSteps) ==
    \A cell \in pattern :
        \E other \in resized :
            /\ other[1] = cell[1]
            /\ other[2] * fromTotalSteps - cell[2] * toTotalSteps <= fromTotalSteps
            /\ cell[2] * toTotalSteps - other[2] * fromTotalSteps <= fromTotalSteps

\* C19: resizing the pattern from N to N' total steps re-samples the hits
\* proportionally: a hit at old step s of a track is afterwards at the step of
\* that track nearest to s * N' / N, within one step, and no hit is anywhere
\* else.
C19_ResizeResamplesProportionally ==
    [][\A timeSignature \in SheetTimeSignatures, totalBarsInput \in 1..MaxSheetBars :
          applyEditFromModal(timeSignature, totalBarsInput) =>
             /\ HitsCarriedOver(editorSheet.pattern, SheetTotalSteps(editorSheet),
                                editorSheet'.pattern, SheetTotalSteps(editorSheet'))
             /\ HitsCarriedOver(editorSheet'.pattern, SheetTotalSteps(editorSheet'),
                                editorSheet.pattern, SheetTotalSteps(editorSheet))]_vars

\* The patterns equal up to one step: each hit of one has a hit of the same
\* track within one step in the other.
SameHitsWithinOneStep(a, b) ==
    /\ HitsCarriedOver(a, 1, b, 1)
    /\ HitsCarriedOver(b, 1, a, 1)

\* C20: resizing the grid to a larger size and then back to the original size
\* gives, for every track, a hit at a step exactly where there was one before
\* (within one step): no hit is lost and none is added.
C20_ResizeRoundTrip ==
    \A timeSignature \in SheetTimeSignatures, totalBarsInput \in 1..MaxSheetBars :
        LET larger == EditResult(editorSheet, noteLengthOverrides, timeSignature, totalBarsInput)
            back == EditResult(larger.sheet, larger.overrides,
                               editorSheet.timeSignature, editorSheet.totalBars)
        IN  SheetTotalSteps(larger.sheet) > SheetTotalSteps(editorSheet) =>
               /\ SheetTotalSteps(back.sheet) = SheetTotalSteps(editorSheet)
               /\ SameHitsWithinOneStep(editorSheet.pattern, back.sheet.pattern)

\* A one-bar 1/4 sheet with two hits near the end of the bar, which has larger
\* grids to go to.
C20_Witness ==
    /\ editorSheet.timeSignature = TimeSignature(1, 4)
    /\ editorSheet.totalBars = 1
    /\ Cardinality({cell \in editorSheet.pattern : cell[2] = StepsPerBarQuarter - 2}) = MaxHits

\* ============================================ properties: metronome sync
RECURSIVE GCD(_, _)
GCD(a, b) == IF b = 0 THEN a ELSE GCD(b, a % b)

\* The fraction num / den in lowest terms.
Reduced(num, den) == [num |-> num \div GCD(num, den), den |-> den \div GCD(num, den)]

\* beatsPerBar * subdivisionsPerBeat * secondsPerTick of the running adapter
MetronomeBarDuration ==
    Reduced(refs.syncedMetronomeBeatsPerBar * refs.syncedMetronomeSubdivisions
                * refs.syncedMetronomeSecondsPerTick.num,
            refs.syncedMetronomeSecondsPerTick.den)

\* stepsPerBar * stepDuration of the sheet
PatternBarDuration ==
    Reduced(editorSheet.stepsPerBar * getStepDurationFraction(editorSheet).num,
            getStepDurationFraction(editorSheet).den)

\* C16: while playback runs with metronome sync, for every supported time
\* signature and every sheet tempo in 40..240 the metronome bar (beatsPerBar *
\* subdivisionsPerBeat * secondsPerTick) lasts as long as the pattern bar
\* (stepsPerBar * stepDuration), so the offset between the n-th metronome bar
\* tick and the n-th pattern bar start is the same for every n.
C16_MetronomeBarEqualsPatternBar ==
    running /\ refs.syncedMetronomeEnabled => MetronomeBarDuration = PatternBarDuration


\* C17: when playback with metronome sync is started from any cursor step, a
\* step in the middle of a bar included, every metronome tick classified as
\* bar-start is scheduled at the audio-clock time of a pattern step whose index
\* is a multiple of stepsPerBar (ticks later than the last step handed so far
\* are left out).
C17_BarTicksOnPatternBarStarts ==
    \A tick \in ticked :
        (/\ tick[1] = "bar"
         /\ \E k \in 1..Len(handed) : handed[k][2] >= tick[2])
        => \E k \in 1..Len(handed) :
               /\ handed[k][2] = tick[2]
               /\ handed[k][1] % editorSheet.stepsPerBar = 0


\* C18: the metronome sync adapter becomes active only in the step of a
\* transport start and inactive only in the step of a transport stop; while the
\* transport stays in CountingIn or Playing it is not stopped or restarted and
\* its tick state (tickIndex, nextTickTime) is never set back, whatever
\* metronome settings change in the meantime.
C18_AdapterFollowsTransport ==
    [][/\ (~refs.syncedMetronomeEnabled /\ refs'.syncedMetronomeEnabled)
              => (TransportState = "Idle" /\ TransportStateAfter # "Idle")
       /\ (refs.syncedMetronomeEnabled /\ ~refs'.syncedMetronomeEnabled)
              => (TransportState # "Idle" /\ TransportStateAfter = "Idle")
       /\ (/\ TransportState # "Idle"
           /\ TransportStateAfter # "Idle"
           /\ refs.syncedMetronomeEnabled)
              => /\ refs'.syncedMetronomeTickIndex >= refs.syncedMetronomeTickIndex
                 /\ refs'.syncedMetronomeNextTickTime >= refs.syncedMetronomeNextTickTime]_vars


\* ================================================ properties: blocks
\* The cells of the rectangle of height rows by width steps at (track, step),
\* clipped to the tracks and the steps of the sheet.
ClippedRectangle(sheet, targetTrack, targetStep, height, width) ==
    {cell \in TrackIds \X (0..(SheetTotalSteps(sheet) - 1)) :
        /\ \E index \in targetTrack..(Min(targetTrack + height, TrackCount) - 1) : cell[1] = TrackAt(index)
        /\ targetStep <= cell[2]
        /\ cell[2] < Min(targetStep + width, SheetTotalSteps(sheet))}

\* C21: pasting a clipboard block of h rows by w columns at anchor (track r,
\* step c) writes exactly the cells of rows r..min(r+h, trackCount)-1 and steps
\* c..min(c+w, totalSteps)-1 with the values of the block, leaves every
\* pattern cell outside that clipped rectangle unchanged, and reports the
\* applied size.
C21_PasteClippedToBounds ==
    selectionClipboard # NoClipboard =>
        \A anchor \in BlockAnchors :
            LET copied == selectionClipboard
                r == PasteResult(editorSheet, noteLengthOverrides, copied,
                                 anchor.trackStart, anchor.stepStart)
                rectangle == ClippedRectangle(editorSheet, anchor.trackStart, anchor.stepStart,
                                              copied.height, copied.width)
            IN  /\ r.ok
                /\ r.applied.height = Min(anchor.trackStart + copied.height, TrackCount) - anchor.trackStart
                /\ r.applied.width = Min(anchor.stepStart + copied.width, SheetTotalSteps(editorSheet))
                                         - anchor.stepStart
                /\ r.sheet.pattern \ rectangle = editorSheet.pattern \ rectangle
                /\ \A index \in 0..(TrackCount - 1), step \in 0..(SheetTotalSteps(editorSheet) - 1) :
                      <<TrackAt(index), step>> \in rectangle =>
                          (<<TrackAt(index), step>> \in r.sheet.pattern
                              <=> <<index - anchor.trackStart, step - anchor.stepStart>> \in copied.values)

\* A block of MaxBlockHeight rows by MaxBlockWidth steps was pasted at the last
\* track, two steps before the end of the sheet: its first row, first step is
\* there, the rest clipped away.
C21_Witness ==
    /\ selectionClipboard.height = MaxBlockHeight
    /\ selectionClipboard.width = MaxBlockWidth
    /\ <<0, 0>> \in selectionClipboard.values
    /\ <<1, 0>> \in selectionClipboard.values
    /\ <<TrackAt(TrackCount - 1), SheetTotalSteps(editorSheet) - 2>> \in editorSheet.pattern


\* C22: copy(selection) stores exactly the overrides whose anchor step lies in
\* the selection's step range and whose voice has at least one track among the
\* selected rows, each keyed by (voice, anchor step minus the selection's first
\* step) with its length; no other override is stored and none is omitted.
C22_CopyStoresOverridesInRange ==
    \A selection \in BlockSelections :
        LET copied == CopyBlock(editorSheet, noteLengthOverrides, selection)
            selectedTrackIds == SelectedTrackIds(selection.trackStart, selection.trackEnd + 1)
            expected == {key \in DOMAIN noteLengthOverrides :
                            /\ selection.stepStart <= key[2]
                            /\ key[2] <= selection.stepEnd
                            /\ selectedTrackIds \cap VoiceTracksOf(key[1]) # {}}
        IN  /\ DOMAIN copied.noteLengthOverrides =
                   {<<key[1], key[2] - selection.stepStart>> : key \in expected}
            /\ \A key \in expected :
                   copied.noteLengthOverrides[<<key[1], key[2] - selection.stepStart>>]
                       = noteLengthOverrides[key]


\* C23: delete(selection) sets every cell of the selected rectangle to no-hit,
\* removes every override of an affected voice anchored within the selected
\* step range, leaves all the other cells and overrides unchanged, and reports
\* the number of cells of the rectangle that held a hit before.
C23_DeleteClearsSelection ==
    \A selection \in BlockSelections :
        LET r == DeleteResult(editorSheet, noteLengthOverrides, selection)
            rectangle == ClippedRectangle(editorSheet, selection.trackStart, selection.stepStart,
                                          selection.trackEnd - selection.trackStart + 1,
                                          selection.stepEnd - selection.stepStart + 1)
            affectedVoices ==
                {VoiceOfTrack(trackId) :
                    trackId \in SelectedTrackIds(selection.trackStart, selection.trackEnd + 1)}
            cleared == {key \in DOMAIN noteLengthOverrides :
                           /\ key[1] \in affectedVoices
                           /\ selection.stepStart <= key[2]
                           /\ key[2] <= selection.stepEnd}
        IN  /\ r.ok
            /\ r.sheet.pattern = editorSheet.pattern \ rectangle
            /\ DOMAIN r.overrides = DOMAIN noteLengthOverrides \ cleared
            /\ \A key \in DOMAIN r.overrides : r.overrides[key] = noteLengthOverrides[key]
            /\ r.removedCount = Cardinality(editorSheet.pattern \cap rectangle)

\* Two hand hits with their overrides, one at the first step, where a block of
\* one step deletes it, one at the last step of the wide blocks; the hit at the
\* first step shares its step with no other hand hit.
C23_Witness ==
    /\ Cardinality(editorSheet.pattern) = MaxHits
    /\ <<"snare", 0>> \in editorSheet.pattern
    /\ <<"hi_hat_close", MaxBlockWidth - 1>> \in editorSheet.pattern
    /\ DOMAIN noteLengthOverrides = {<<"hand", 0>>, <<"hand", MaxBlockWidth - 1>>}


\* ============================================ properties: load and import
\* C24: when a sheet from an external source (a Guitar Pro file, or a
\* persisted sheet parsed and loaded) is accepted into the editor, every
\* override is anchored at a same-voice hit, does not cross the end of its bar,
\* and has no start of another same-voice hit inside its span; the overrides
\* violating any of these are dropped.
C24_AcceptedSheetHoldsInvariants ==
    [][((\E target \in SavedSheets : loadSheet(target))
            \/ (\E imported \in ImportedSheets : applyImportedSheet(imported)))
          => \A key \in DOMAIN noteLengthOverrides' :
                /\ \E trackId \in VoiceTracksOf(key[1]) : <<trackId, key[2]>> \in editorSheet'.pattern
                /\ SpanFitsBar(editorSheet', noteLengthOverrides', key)
                /\ HitsInsideSpan(editorSheet', noteLengthOverrides', key) = {}]_vars


\* ================================================ properties: notation
\* A rest of the given length at the step stays inside the bar and meets no hit
\* and no sustained note of either voice.
RestFits(sheet, overrides, step, length) ==
    /\ step + length <= BarStartOf(sheet, step) + sheet.stepsPerBar
    /\ \A s \in step..(step + length - 1) :
          /\ \A trackId \in TrackIds : <<trackId, s>> \notin sheet.pattern
          /\ \A key \in DOMAIN overrides : ~(key[2] < s /\ s < key[2] + overrides[key])

\* C25: at every step of a bar where a voice emits a rest, the rest's length
\* is the largest L in {8, 4, 2, 1} such that step + L does not pass the end of
\* the bar and no track of either voice has a hit or a sustained note in
\* [step, step + L).
C25_RestIsLargestThatFits ==
    \A barIndex \in 0..(editorSheet.totalBars - 1), voicePart \in VoiceParts :
        LET tickables == RenderedVoiceTickables(editorSheet, noteLengthOverrides, barIndex, voicePart)
        IN  \A i \in 1..Len(tickables) :
                tickables[i].kind = "rest" =>
                    /\ RestFits(editorSheet, noteLengthOverrides, tickables[i].step, tickables[i].len)
                    /\ \A length \in NoteLengthSteps :
                          RestFits(editorSheet, noteLengthOverrides, tickables[i].step, length)
                              => length <= tickables[i].len


\* The note tokens of the bar, of both voices, that hold the hit.
NoteTokensOf(sheet, overrides, barIndex, cell) ==
    {token \in UNION {{<<voicePart, i>> :
                          i \in 1..Len(RenderedVoiceTickables(sheet, overrides, barIndex, voicePart))} :
                      voicePart \in VoiceParts} :
        LET tickable == RenderedVoiceTickables(sheet, overrides, barIndex, token[1])[token[2]]
        IN  tickable.kind = "note" /\ tickable.step = cell[2] /\ cell[1] \in tickable.tracks}

\* C26: in every reachable editor state and for every bar, each hit
\* (track, step) of the pattern is in exactly one emitted note token, the hand
\* and the foot tokens of the bar counted together: no hit is left out of the
\* notation and none is emitted twice.
C26_EachHitInOneNoteToken ==
    \A cell \in editorSheet.pattern :
        Cardinality(NoteTokensOf(editorSheet, noteLengthOverrides,
                                 cell[2] \div editorSheet.stepsPerBar, cell)) = 1


\* ================================================ properties: resume point
\* C27: a stop leaves currentStep as it was when the stop was invoked; while
\* the transport is stopped, nothing but a cursor move changes it; and the next
\* start takes it, clamped to the steps of the sheet, as the step it hands
\* first.
C27_StopFreezesResumePoint ==
    [][/\ ((running \/ countInActive) /\ togglePlayback)
              => refs'.currentStep = refs.currentStep
       /\ (/\ ~(running \/ countInActive)
           /\ ~(\E step \in CursorSteps : setPlaybackCursorStep(step)))
              => /\ refs'.currentStep = clampStepIndex(refs.currentStep, SheetTotalSteps(editorSheet))
                 /\ running' => refs'.transportStartStep = refs'.currentStep
       /\ (running' /\ handed' # <<>> /\ (handed = <<>> \/ ~running))
              => handed'[1][1] = refs'.transportStartStep]_vars

\* A second run that started in the middle of the sheet, at a step the cursor
\* was never put on: the step the first run was stopped at; its first step has
\* been handed.
C27_Witness ==
    /\ running
    /\ runStart.index = MaxResumeRuns
    /\ runStart.step \notin CursorSteps
    /\ handed # <<>>
    /\ handed[1][1] = runStart.step


\* ================================================ properties: progress
\* Every step index of the sheet has been handed to playStep after the first
\* k steps handed in the run.
EveryStepHandedAfter(k) ==
    \A s \in 0..(SheetTotalSteps(editorSheet) - 1) :
        \E j \in (k + 1)..Len(handed) : handed[j][1] = s

\* C28: while the transport stays in Playing and the scheduler callback keeps
\* being invoked, playback never stalls: from every moment of the run, with k
\* steps handed so far, every step index of the pattern is handed again later,
\* also when hit edits re-arm the loop between callbacks (k up to the number of
\* steps of a run less one turn of the sheet).
C28_PlaybackNeverStalls ==
    \A k \in 0..(MaxHandedSteps - StepsPerBarQuarter * TotalBars) :
        (running /\ ~countInActive /\ Len(handed) = k)
            ~> (~running \/ EveryStepHandedAfter(k))

\* A run whose loop was re-armed by a hit edit and that went on to hand every
\* step index once more after the first turn of the sheet.
C28_Witness ==
    /\ running
    /\ runStart.edited
    /\ Len(handed) > SheetTotalSteps(editorSheet)
    /\ EveryStepHandedAfter(MaxHandedSteps - SheetTotalSteps(editorSheet))


\* ================================================ properties: drum sheets
\* C29: for any interleaving of save and restore requests on one drum sheet,
\* once no request is in flight the content of the sheet row is the content of
\* the sheet's highest-numbered revision.
C29_RowIsLatestRevision ==
    (/\ \A requestId \in DrumSheetRequestIds : drumSheetRequests[requestId].pc \in {"idle", "done"}
     /\ drumSheetRevisions # {})
        => \E row \in drumSheetRevisions :
               /\ row.revisionNo = getLatestRevisionNo(drumSheetRevisions)
               /\ drumSheetRow = <<row.content>>


\* ================================================= properties: the cursor
StepInSheet(step, sheet) == step \in 0..(SheetTotalSteps(sheet) - 1)

\* C30: every step index handed to the trigger layer, and every value held by
\* currentStep and nextScheduledStep, lies in 0..totalSteps-1 of the sheet in
\* the editor, also after the sheet is shrunk, replaced by load or import, or
\* the cursor is moved while stopped.
C30_StepsWithinSheet ==
    /\ [](StepInSheet(refs.currentStep, editorSheet) /\ StepInSheet(refs.nextScheduledStep, editorSheet))
    /\ [][\A i \in (Len(handed) + 1)..Len(handed') : StepInSheet(handed'[i][1], editorSheet')]_vars

====
